---- MODULE Spec2Model ----
(***************************************************************************)
(* A model of mobx-toolbox's fetch orchestrator: the per-id cache and      *)
(* factory mobxSaiFetch, the class MobxSaiFetch (fetch, handleScrollUpdate,*)
(* reset) and the promise chain then / catch / finally that fetch attaches *)
(* to every thunk invocation; of the class MobxDebouncer with the timeouts *)
(* it sets; of ValidationSchema (extend, validate); of MobxUpdater         *)
(* (updateState, deepUpdate); and of the one-shot reaction mobxSaiHandler. *)
(*                                                                         *)
(* JavaScript values are tagged records [k |-> kind, v |-> payload]; an    *)
(* object's payload is a function from its keys to values, a list's        *)
(* payload is the sequence of its items.  A list item is a natural number: *)
(* the item's id, 0 standing for an item without an id (falsy).            *)
(* A partial options object is a function whose domain holds the keys the  *)
(* caller passed; the spread {...a, ...b} is b @@ a.  A string that the    *)
(* code takes apart or puts together is the sequence of its characters.    *)
(***************************************************************************)
EXTENDS Integers, Sequences, FiniteSets, TLC

VARIABLES
    fetchCache,   \* Map<string, instance>: a function from cached ids to handles
    insts,        \* the MobxSaiFetch instances created so far, by handle
    promises,     \* thunk invocations whose promise chain has not finished
    page,         \* the caller's page field (options.page / pageSetterName)
    cacheList,    \* the caller's list behind cacheSystem.setCache
    arrList,      \* the caller's list behind fetchAddTo.setArrCallback
    params,       \* the caller's params behind dataScope.setParams
    thunkCalls,   \* number of thunk invocations so far
    firstRef,     \* per id: what the first mobxSaiFetch call since the last clear returned
    last,         \* the operation that ran last, and what its caller got
    debouncedActions, \* MobxDebouncer.debouncedActions: Map<actionKey, DebouncedAction>
    actionRegistry,   \* MobxDebouncer.actionRegistry: Map<actionKey, Set<action>>
    timers,       \* the timeouts set and neither cleared nor run yet
    callbacks,    \* the callbacks handed to debouncedAction so far, by number
    validators,   \* ValidationSchema.validators: Record<field, Validator[]>
    collection,   \* the array of items handed to MobxUpdater.getUpdater
    handlers      \* the reactions made by mobxSaiHandler, by number

\* the MobxDebouncer, the ValidationSchema and the updater's collection, which
\* no fetch touches
toolVars == <<debouncedActions, actionRegistry, timers, callbacks, validators,
              collection>>

\* the fetch orchestrator, which neither the debouncer nor a schema touches
fetchVars == <<fetchCache, insts, promises, page, cacheList, arrList, params,
               thunkCalls, firstRef, handlers>>

vars == <<fetchCache, insts, promises, page, cacheList, arrList, params,
          thunkCalls, firstRef, last, debouncedActions, actionRegistry,
          timers, callbacks, validators, collection, handlers>>

-----------------------------------------------------------------------------
(* Bounds of the model *)

MaxInst == 2
MaxCalls == 2
MaxList == 6
MaxActions == 2
MaxRuns == 2
MaxValidators == 3
MaxHandlers == 2
MaxScroll == 3
MaxPages == 5

-----------------------------------------------------------------------------
(* JavaScript values *)

Null == [k |-> "null", v |-> 0]
Lst(s) == [k |-> "list", v |-> s]
Obj(f) == [k |-> "obj", v |-> f]
Bool(b) == [k |-> "bool", v |-> b]
Num(n) == [k |-> "num", v |-> n]
Undefined == [k |-> "undefined", v |-> 0]

IsArray(x) == x.k = "list"
IsObject(x) == x.k = "obj"
Truthy(x) ==
    CASE x.k = "null" -> FALSE
      [] x.k = "undefined" -> FALSE
      [] x.k = "num" -> x.v # 0
      [] x.k = "bool" -> x.v
      [] OTHER -> TRUE

\* obj[key] of a JavaScript object (undefined when the key is absent)
Prop(x, key) ==
    IF IsObject(x) /\ key \in DOMAIN x.v THEN x.v[key] ELSE Undefined

\* key in obj
HasKey(x, key) == IsObject(x) /\ key \in DOMAIN x.v

\* {...obj, [key]: val}
WithProp(x, key, val) == Obj((key :> val) @@ x.v)

RECURSIVE Reverse(_)
Reverse(s) == IF s = <<>> THEN <<>> ELSE Reverse(Tail(s)) \o <<Head(s)>>

NoOptions == <<>>
NoPct == -1

-----------------------------------------------------------------------------
(* Options *)

defaultOptions ==
    [ id |-> "default",
      page |-> "null",
      pageSetterName |-> "",
      isFetchUp |-> FALSE,
      fetchType |-> "default",
      fetchIfPending |-> FALSE,
      fetchIfHaveData |-> TRUE,
      isSetData |-> TRUE,
      needPending |-> TRUE,
      cacheSystem |-> [ limit |-> 0, setCache |-> "noop" ],
      dataScope |->
        [ class |-> "",
          startFrom |-> "top",
          topPercentage |-> NoPct,
          botPercentage |-> NoPct,
          relativeParamsKey |-> "",
          setParams |-> "null",
          upOrDownParamsKey |-> "",
          isHaveMoreResKey |-> "",
          howMuchGettedToTop |-> 2 ],
      fetchAddTo |->
        [ path |-> "",
          addTo |-> "reset",
          isSetReversedArr |-> FALSE,
          isSetPrevArr |-> FALSE,
          setArrCallback |-> "null" ] ]

\* options.cacheSystem and the like, spread: nothing when the key is absent
Sub(o, key) == IF key \in DOMAIN o THEN o[key] ELSE NoOptions

\* { ...cur, ...defaultOptions, ...options,
\*   cacheSystem: { ...cur.cacheSystem, ...defaultOptions.cacheSystem, ...options.cacheSystem },
\*   dataScope: {...}, fetchAddTo: {...} }
MergeOptions(cur, options) ==
    [ cacheSystem |-> Sub(options, "cacheSystem") @@ defaultOptions.cacheSystem @@ cur.cacheSystem,
      dataScope |-> Sub(options, "dataScope") @@ defaultOptions.dataScope @@ cur.dataScope,
      fetchAddTo |-> Sub(options, "fetchAddTo") @@ defaultOptions.fetchAddTo @@ cur.fetchAddTo ]
    @@ options @@ defaultOptions @@ cur

-----------------------------------------------------------------------------
(* class MobxSaiFetch: fields, constructor and the flag setters *)

\* the field initialisers, then the constructor body
NewInstance(options) ==
    LET o == MergeOptions(defaultOptions, options) IN
    [ options |-> o,
      oldOptions |-> <<>>,
      promiseOrFunction |-> "null",
      isPending |-> FALSE,
      isFulfilled |-> FALSE,
      isRejected |-> FALSE,
      status |-> IF ~o.needPending THEN "fulfilled" ELSE "pending",
      data |-> Null,
      error |-> "null",
      addedToEndCount |-> 0,
      addedToStartCount |-> 0,
      fetchedCount |-> 0,
      scrollProgress |-> 0,
      gettedToTop |-> 0,
      botStatus |-> "",
      topStatus |-> "",
      scrollCachedData |-> <<>>,
      isBotPending |-> FALSE,
      isBotRejected |-> FALSE,
      isBotFulfulled |-> FALSE,
      isTopPending |-> FALSE,
      isTopRejected |-> FALSE,
      isTopFulfulled |-> FALSE,
      topError |-> "null",
      botError |-> "null",
      isHaveMoreBot |-> TRUE,
      isHaveMoreTop |-> TRUE,
      \* setupScrollTracking found the element and listens to its scroll events
      tracking |-> o.dataScope.class # "" ]

\* setFulfilled that leaves isPending as it is
setFulfilledStillPending(i) == [i EXCEPT !.isFulfilled = TRUE, !.isRejected = FALSE]

setFulfilled(i) == [i EXCEPT !.isFulfilled = TRUE, !.isPending = FALSE, !.isRejected = FALSE]
setRejected(i) == [i EXCEPT !.isRejected = TRUE, !.isFulfilled = FALSE, !.isPending = FALSE]
setPending(i) == [i EXCEPT !.isFulfilled = FALSE, !.isPending = TRUE, !.isRejected = FALSE]

setTopPending(i) ==
    [i EXCEPT !.topStatus = "pending", !.isTopPending = TRUE,
              !.isTopRejected = FALSE, !.isTopFulfulled = FALSE]
setTopRejected(i, err) ==
    [i EXCEPT !.topError = err, !.topStatus = "rejected", !.isTopPending = FALSE,
              !.isTopRejected = TRUE, !.isTopFulfulled = FALSE]
setTopFulfilled(i) ==
    [i EXCEPT !.topStatus = "fulfilled", !.isTopPending = FALSE,
              !.isTopRejected = FALSE, !.isTopFulfulled = TRUE]
setBotPending(i) ==
    [i EXCEPT !.botStatus = "pending", !.isBotPending = TRUE,
              !.isBotRejected = FALSE, !.isBotFulfulled = FALSE]
setBotRejected(i, err) ==
    [i EXCEPT !.botError = err, !.botStatus = "rejected", !.isBotPending = FALSE,
              !.isBotRejected = TRUE, !.isBotFulfulled = FALSE]
setBotFulfilled(i) ==
    [i EXCEPT !.botStatus = "fulfilled", !.isBotPending = FALSE,
              !.isBotRejected = FALSE, !.isBotFulfulled = TRUE]

\* setFetchedCount('+'), setAddedToStartCount('+'), setAddedToEndCount('+')
setFetchedCount(i) == [i EXCEPT !.fetchedCount = @ + 1]
setAddedToStartCount(i) == [setFetchedCount(i) EXCEPT !.addedToStartCount = @ + 1]
setAddedToEndCount(i) == [setFetchedCount(i) EXCEPT !.addedToEndCount = @ + 1]

\* path.split("."): the paths of the model are single keys
PathKeys(path) == <<path>>

RECURSIVE WalkPath(_, _)
WalkPath(acc, keys) ==
    IF keys = <<>> THEN acc
    ELSE WalkPath(IF Truthy(acc) /\ Prop(acc, Head(keys)).k # "undefined"
                  THEN Prop(acc, Head(keys)) ELSE Null,
                  Tail(keys))

getPathValue(obj, path) == WalkPath(obj, PathKeys(path))

\* the paths of the model are single keys: temp[keys[keys.length - 1]] = value
setPathValue(obj, path, value) == WithProp(obj, path, value)

-----------------------------------------------------------------------------
(* MobxSaiFetch.fetch: the synchronous part *)

PendingGuard(i) == ~i.options.fetchIfPending /\ i.isPending

\* HaveDataGuard without the `!fromWhere` test: it would decline scroll calls too
HaveDataGuardAnyCaller(i, fromWhere) ==
    ~i.options.fetchIfHaveData /\ Truthy(i.data)

HaveDataGuard(i, fromWhere) ==
    ~i.options.fetchIfHaveData /\ Truthy(i.data) /\ fromWhere = "null"

NoMoreGuard(i, fetchWhat) ==
    \/ fetchWhat = "bot" /\ ~i.isHaveMoreBot
    \/ fetchWhat = "top" /\ ~i.isHaveMoreTop

Declined(i, fromWhere, fetchWhat) ==
    PendingGuard(i) \/ HaveDataGuard(i, fromWhere) \/ NoMoreGuard(i, fetchWhat)

IsPrimary(fromWhere, fetchWhat) == fromWhere = "null" /\ fetchWhat = "null"

\* if (fromWhere == null && fetchWhat == null) { if (needPending) {...}; this.error = null }
EnterPending(i, fromWhere, fetchWhat) ==
    IF IsPrimary(fromWhere, fetchWhat)
    THEN [ (IF i.options.needPending
            THEN [setPending(i) EXCEPT !.status = "pending"]
            ELSE i) EXCEPT !.error = "null" ]
    ELSE i

\* what the callbacks of one invocation close over
Invocation(h, i, fromWhere, fetchWhat) ==
    [ h |-> h,
      fromWhere |-> fromWhere,
      fetchWhat |-> fetchWhat,
      gettedToTop |-> i.gettedToTop,
      startFrom |-> i.options.dataScope.startFrom,
      isHaveMoreResKey |-> i.options.dataScope.isHaveMoreResKey,
      howMuchGettedToTop |-> i.options.dataScope.howMuchGettedToTop,
      fetchAddTo |-> i.options.fetchAddTo,
      phase |-> "pending",
      err |-> "null",
      \* a snapshot the invocation found left by a scroll trigger, with the
      \* options in effect at its start (read by the properties only)
      leftover |-> IF i.oldOptions = <<>> THEN <<>>
                   ELSE << [snapshot |-> i.oldOptions[1], established |-> i.options] >> ]

\* fetch(promiseOrFunction, fromWhere, fetchWhat) up to `return this`:
\* out is "declined" (an early return), "invoked" (the thunk returned a
\* promise and the chain is attached) or "threw" (the thunk threw)
fetch(h, i, thunk, fromWhere, fetchWhat) ==
    IF Declined(i, fromWhere, fetchWhat)
    THEN [ inst |-> i, out |-> "declined", started |-> <<>> ]
    ELSE LET i1 == EnterPending(i, fromWhere, fetchWhat) IN
         IF thunk = "throws"
         THEN [ inst |-> i1, out |-> "threw", started |-> <<>> ]
         ELSE [ inst |-> i1, out |-> "invoked",
                started |-> << Invocation(h, i, fromWhere, fetchWhat) >> ]

-----------------------------------------------------------------------------
(* MobxSaiFetch.fetch: the .then callback *)

Min(a, b) == IF a < b THEN a ELSE b
Max(a, b) == IF a > b THEN a ELSE b

\* arr.slice(0, n); the remainder after arr.splice(0, n); arr.slice(0, -n); arr.slice(-n)
SliceFirst(s, n) == SubSeq(s, 1, Min(n, Len(s)))
SpliceFirst(s, n) == SubSeq(s, Min(n, Len(s)) + 1, Len(s))
SliceDropLast(s, n) == IF n = 0 THEN <<>> ELSE SubSeq(s, 1, Max(Len(s) - n, 0))
SliceLast(s, n) == IF n = 0 THEN s ELSE SubSeq(s, Max(Len(s) - n, 0) + 1, Len(s))

\* the status axis of a fulfilled invocation and the isHaveMore flag it reads
\* from the result
ThenAxis(i, p, result) ==
    LET key == p.isHaveMoreResKey
        found == key # "" /\ IsObject(result) /\ HasKey(result, key)
        more == IF found THEN Truthy(result.v[key]) ELSE FALSE
    IN  IF IsPrimary(p.fromWhere, p.fetchWhat)
        THEN [ setFulfilled([i EXCEPT !.status = "fulfilled"])
                 EXCEPT !.isHaveMoreBot = IF found THEN more ELSE @ ]
        ELSE LET i1 == IF p.fetchWhat = "bot"
                       THEN [ setBotFulfilled(i)
                                EXCEPT !.isHaveMoreBot = IF found THEN more ELSE @ ]
                       ELSE i
             IN  IF p.fetchWhat = "top"
                 THEN [ setTopFulfilled(i1)
                          EXCEPT !.isHaveMoreTop = IF found THEN more ELSE @ ]
                 ELSE i1

\* SCROLL CACHE SYSTEM: runs when data[path] and result[path] are both lists
ScrollCache(i, p) ==
    LET path == p.fetchAddTo.path
        limit == i.options.cacheSystem.limit
        list0 == i.data.v[path].v
        evict == p.gettedToTop <= -p.howMuchGettedToTop /\ p.startFrom = "top"
        list1 == IF ~evict THEN list0
                 ELSE IF p.fetchWhat = "bot" THEN SpliceFirst(list0, limit)
                 ELSE SliceDropLast(list0, limit)
        i1 == [i EXCEPT !.isHaveMoreTop = IF evict THEN TRUE ELSE @,
                        !.data = WithProp(i.data, path, Lst(list1))]
        i2 == IF p.fetchWhat = "bot" /\ p.startFrom = "top"
                 /\ p.gettedToTop = -p.howMuchGettedToTop
              THEN [i1 EXCEPT !.scrollCachedData = SliceFirst(list1, limit)]
              ELSE i1
    IN  IF p.fetchWhat = "top" /\ p.startFrom = "bot"
           /\ p.gettedToTop = p.howMuchGettedToTop
        THEN [i2 EXCEPT !.scrollCachedData = SliceLast(list1, limit)]
        ELSE i2

\* The callbacks below work on a context c: the instance i, the result (whose
\* list .reverse() changes in place), the caller's values arr and cache, and
\* out: "run" (go on to the page step), "return" (the callback returned
\* early) or "throw" (a TypeError left the callback).  A value stored in an
\* observable field is copied by the store, so no two fields share a list.

HasCallback(p) == p.fetchAddTo.setArrCallback # "null"

\* result[fetchAddTo.path]
ResultAt(c, p) == Prop(c.result, p.fetchAddTo.path)

ReverseInPlace(c, p) ==
    [c EXCEPT !.result = WithProp(c.result, p.fetchAddTo.path,
                                  Lst(Reverse(ResultAt(c, p).v)))]

\* case "start"
MergeStart(c, p) ==
    LET fa == p.fetchAddTo
        i1 == setAddedToStartCount(c.i)
        target == getPathValue(c.i.data, fa.path).v
        res == ResultAt(c, p).v
        cbThrows == HasCallback(p) /\ ~IsArray(c.arr)
        arr1 == IF ~HasCallback(p) \/ cbThrows THEN c.arr
                ELSE IF fa.isSetReversedArr THEN Lst(Reverse(res \o c.arr.v))
                ELSE Lst(Reverse(res) \o c.arr.v)
        c1 == IF HasCallback(p) /\ ~cbThrows /\ ~fa.isSetReversedArr
              THEN ReverseInPlace(c, p) ELSE c
    IN  IF cbThrows THEN [c EXCEPT !.i = i1, !.out = "throw"]
        ELSE IF ~c.i.options.isSetData
        THEN [c1 EXCEPT !.i = i1, !.arr = arr1, !.out = "return"]
        ELSE [c1 EXCEPT !.i = [i1 EXCEPT !.data =
                                 setPathValue(i1.data, fa.path,
                                              Lst(ResultAt(c1, p).v \o target))],
                        !.arr = arr1]

\* case "end"
MergeEnd(c, p) ==
    LET fa == p.fetchAddTo
        i1 == setAddedToEndCount(c.i)
        target == getPathValue(c.i.data, fa.path).v
        res == ResultAt(c, p).v
        cbThrows == HasCallback(p) /\ ~IsArray(c.arr)
        arr1 == IF ~HasCallback(p) \/ cbThrows THEN c.arr
                ELSE IF fa.isSetReversedArr THEN Lst(Reverse(c.arr.v \o res))
                ELSE Lst(c.arr.v \o res)
    IN  IF cbThrows THEN [c EXCEPT !.i = i1, !.out = "throw"]
        ELSE IF ~c.i.options.isSetData
        THEN [c EXCEPT !.i = i1, !.arr = arr1, !.out = "return"]
        ELSE [c EXCEPT !.i = [i1 EXCEPT !.data =
                                setPathValue(i1.data, fa.path, Lst(target \o res))],
                       !.arr = arr1]

\* case "reset" and default: setPathValue is given the whole result
MergeReset(c, p) ==
    LET fa == p.fetchAddTo
        res == ResultAt(c, p).v
        arr1 == IF ~HasCallback(p) THEN c.arr
                ELSE IF fa.isSetReversedArr THEN Lst(Reverse(res))
                ELSE Lst(res)
    IN  IF ~c.i.options.isSetData
        THEN [c EXCEPT !.arr = arr1, !.out = "return"]
        ELSE [c EXCEPT !.i = [c.i EXCEPT !.data =
                                setPathValue(c.i.data, fa.path, c.result)],
                       !.arr = arr1]

\* data[path] and result[path] are both lists
MergeLists(c, p) ==
    LET c1 == [c EXCEPT !.i = ScrollCache(c.i, p)] IN
    CASE p.fetchAddTo.addTo = "start" -> MergeStart(c1, p)
      [] p.fetchAddTo.addTo = "end" -> MergeEnd(c1, p)
      [] OTHER -> MergeReset(c1, p)

\* if (arrCount >= limit && setCache) setCache(list)
SetCacheAt(c, count, list) ==
    LET cs == c.i.options.cacheSystem IN
    IF cs.limit # 0 /\ count >= cs.limit /\ cs.setCache = "cache"
    THEN [c EXCEPT !.cache = list] ELSE c

\* the isSetPrevArr list of the whole-result branches:
\* addTo == 'start' ? [...prev, ...res] : [...res, ...prev], res reversed first
\* (in a copy) when isSetReversedArr
PrevArrList(c, p) ==
    LET fa == p.fetchAddTo
        res == IF fa.isSetReversedArr THEN Reverse(ResultAt(c, p).v)
               ELSE ResultAt(c, p).v
    IN  IF fa.addTo = "start" THEN Lst(c.arr.v \o res) ELSE Lst(res \o c.arr.v)

\* a path is set and data is an object, but data[path] and result[path] are
\* not both lists: setArrCallback(prev => ...) of the first whole-result branch
CallbackWhole(c, p) ==
    LET fa == p.fetchAddTo
        rp == ResultAt(c, p)
    IN  IF ~HasCallback(p) THEN c
        ELSE IF fa.isSetPrevArr
        THEN IF IsArray(rp) /\ IsArray(c.arr)
             THEN [c EXCEPT !.arr = PrevArrList(c, p)]
             ELSE [c EXCEPT !.out = "throw"]
        ELSE IF fa.isSetReversedArr
        THEN IF IsArray(rp)
             THEN [ReverseInPlace(c, p) EXCEPT !.arr = Lst(Reverse(rp.v))]
             ELSE IF rp.k = "undefined" THEN [c EXCEPT !.arr = Undefined]
             ELSE [c EXCEPT !.out = "throw"]
        ELSE [c EXCEPT !.arr = rp]

\* no path, or data is null: setArrCallback of the second whole-result branch,
\* which also feeds cacheSystem.setCache
CallbackWholeCache(c, p) ==
    LET fa == p.fetchAddTo
        rp == ResultAt(c, p)
    IN  IF ~HasCallback(p) THEN c
        ELSE IF fa.path = "" THEN [c EXCEPT !.arr = c.result]
        ELSE IF fa.isSetPrevArr
        THEN IF IsArray(rp) /\ IsArray(c.arr)
             THEN [ SetCacheAt(c, Len(c.arr.v) + Len(rp.v), PrevArrList(c, p))
                      EXCEPT !.arr = PrevArrList(c, p) ]
             ELSE [c EXCEPT !.out = "throw"]
        ELSE IF ~IsArray(rp)
        THEN IF fa.isSetReversedArr /\ rp.k # "undefined"
             THEN [c EXCEPT !.out = "throw"]
             ELSE [c EXCEPT !.arr = rp]
        ELSE LET cs == c.i.options.cacheSystem
                 cached == cs.limit # 0 /\ Len(rp.v) >= cs.limit /\ cs.setCache # "null"
                 \* newList?.reverse() handed to setCache, in place
                 c1 == IF cached /\ fa.isSetReversedArr
                       THEN SetCacheAt(ReverseInPlace(c, p), Len(rp.v),
                                       Lst(Reverse(rp.v)))
                       ELSE SetCacheAt(c, Len(rp.v), rp)
                 \* return newList?.reverse(), in place once more
                 c2 == IF fa.isSetReversedArr THEN ReverseInPlace(c1, p) ELSE c1
             IN  [c2 EXCEPT !.arr = ResultAt(c2, p)]

\* after the callback of a whole-result branch:
\* if (!this.options?.isSetData) return; this.data = result
CommitWhole(c) ==
    IF c.out # "run" THEN c
    ELSE IF ~c.i.options.isSetData THEN [c EXCEPT !.out = "return"]
    ELSE [c EXCEPT !.i = [c.i EXCEPT !.data = c.result], !.assigned = TRUE]

\* if (page && pageSetterName && !isFetchUp) page[pageSetterName](p => p + 1)
PageStep(c) ==
    LET o == c.i.options IN
    IF c.out = "run" /\ o.page # "null" /\ o.pageSetterName # "" /\ ~o.isFetchUp
    THEN [c EXCEPT !.page = @ + 1] ELSE c

\* the whole .then callback
Then(i, p, result, arr, cache, pg) ==
    LET fa == p.fetchAddTo
        c0 == [ i |-> ThenAxis(i, p, result), result |-> result,
                arr |-> arr, cache |-> cache, page |-> pg, out |-> "run",
                assigned |-> FALSE ]
    IN  IF fa.path # "" /\ c0.i.data.k \in {"obj", "list"}
        THEN IF IsArray(getPathValue(c0.i.data, fa.path)) /\ IsArray(Prop(result, fa.path))
             THEN PageStep(MergeLists(c0, p))
             ELSE PageStep(CommitWhole(CallbackWhole(
                      [c0 EXCEPT !.i = setFetchedCount(c0.i)], p)))
        ELSE PageStep(CommitWhole(CallbackWholeCache(
                 [c0 EXCEPT !.i = setFetchedCount(c0.i)], p)))

\* Catch without the test of the axis: every failure lands on the primary axis
CatchPrimaryAxis(i, p, err) ==
    [ setRejected([i EXCEPT !.status = "rejected"]) EXCEPT !.error = err ]

\* the .catch callback
Catch(i, p, err) ==
    IF IsPrimary(p.fromWhere, p.fetchWhat)
    THEN [ setRejected([i EXCEPT !.status = "rejected"]) EXCEPT !.error = err ]
    ELSE LET i1 == IF p.fetchWhat = "bot" THEN setBotRejected(i, err) ELSE i
         IN  IF p.fetchWhat = "top" THEN setTopRejected(i1, err) ELSE i1

\* the .finally callback
Finally(i) ==
    IF i.oldOptions # <<>> THEN [i EXCEPT !.options = i.oldOptions[1]] ELSE i

-----------------------------------------------------------------------------
(* MobxSaiFetch.handleScrollUpdate *)

\* Math.round((scrollTop / (scrollHeight - clientHeight)) * 100), for
\* scrollTop >= 0 and scrollHeight > clientHeight
ScrollProgress(scrollTop, scrollHeight, clientHeight) ==
    (200 * scrollTop + (scrollHeight - clientHeight))
        \div (2 * (scrollHeight - clientHeight))

\* this.data[this.options.fetchAddTo.path]
DataAtPath(i) == Prop(i.data, i.options.fetchAddTo.path)

\* the options a scroll trigger puts in place of this.options
ScrollOptions(o, addTo) ==
    [o EXCEPT !.isSetData = TRUE, !.fetchAddTo = [@ EXCEPT !.addTo = addTo]]

\* this.options.dataScope.setParams(prev => ...): the new params, given the
\* item whose id is the relative id
SetParams(prm, relKey, upKey, item, up) ==
    [ rel |-> IF relKey # "" THEN item ELSE prm.rel,
      up |-> IF upKey # "" THEN up ELSE prm.up ]

\* The two sections work on a context c: the instance i, the invocations
\* started, the caller's params, whether setParams was called, and out: "run",
\* "return" (handleScrollUpdate returned early) or "throw" (an exception left
\* it).  s holds the values handleScrollUpdate destructured on entry.

\* the call of fetch that ends a section
ScrollFetch(c, h, fetchWhat) ==
    IF c.i.promiseOrFunction = "null" THEN c
    ELSE LET f == fetch(h, c.i, c.i.promiseOrFunction, "fromScroll", fetchWhat) IN
         [c EXCEPT !.i = f.inst,
                   !.started = @ \o f.started,
                   !.out = IF f.out = "threw" THEN "throw" ELSE @]

\* the top trigger under no displacement bound
TopSuppressedNever(s) == FALSE

\* if (startFrom == 'top' && gettedToTop >= -(howMuchGettedToTop! - 1)) return
TopSuppressed(s) ==
    s.startFrom = "top" /\ s.gettedToTop >= -(s.howMuchGettedToTop - 1)

\* === FETCH TOP ===
ScrollTopSection(c, h, s) ==
    LET i == c.i
        fires == /\ s.topPercentage # NoPct
                 /\ i.scrollProgress <= s.topPercentage
                 /\ ~s.isTopPending
                 /\ s.isHaveMoreTop
        i1 == setTopPending(
                [i EXCEPT !.gettedToTop = @ + 1,
                          !.isHaveMoreBot =
                              IF i.gettedToTop + 1 >= s.howMuchGettedToTop + 1
                              THEN TRUE ELSE @])
        list == DataAtPath(i1)
        first == IF IsArray(list) /\ Len(list.v) > 0 THEN list.v[1] ELSE 0
        i2 == [i1 EXCEPT !.oldOptions = <<i1.options>>,
                         !.options = ScrollOptions(i1.options, "start")]
        \* setParams is not a function, or data[path][0] is undefined
        throws == \/ i2.options.dataScope.setParams = "null"
                  \/ s.relativeParamsKey # "" /\ ~(IsArray(list) /\ Len(list.v) > 0)
    IN  IF ~fires THEN c
        ELSE IF TopSuppressed(s)
        THEN [c EXCEPT !.out = "return"]
        ELSE IF first # 0
        THEN [c EXCEPT !.i = i1, !.out = "return"]
        ELSE IF throws
        THEN [c EXCEPT !.i = i2, !.out = "throw",
                       !.setParams = i2.options.dataScope.setParams # "null"]
        ELSE ScrollFetch(
                 [c EXCEPT !.i = i2, !.setParams = TRUE,
                           !.params = SetParams(c.params, s.relativeParamsKey,
                                                s.upOrDownParamsKey, first, "true")],
                 h, "top")

\* === FETCH BOT ===
ScrollBotSection(c, h, s) ==
    LET i == c.i
        list0 == DataAtPath(i)
        fires == /\ s.botPercentage # NoPct
                 /\ i.scrollProgress >= s.botPercentage
                 /\ ~s.isBotPending
                 /\ Truthy(i.data)
                 /\ i.options.fetchAddTo.path # ""
                 /\ Truthy(list0)
                 /\ i.options.dataScope.setParams # "null"
                 /\ s.isHaveMoreBot
        i1 == setBotPending(
                [i EXCEPT !.gettedToTop = @ - 1,
                          !.isHaveMoreTop =
                              IF i.gettedToTop - 1 <= s.howMuchGettedToTop - 1
                              THEN TRUE ELSE @])
        list == DataAtPath(i1)
        \* data[path][data[path].length - 1] is undefined
        throws == ~(IsArray(list) /\ Len(list.v) > 0)
        lastItem == IF throws THEN 0 ELSE list.v[Len(list.v)]
        i2 == [i1 EXCEPT !.oldOptions = <<i1.options>>,
                         !.options = ScrollOptions(i1.options, "end")]
    IN  IF c.out # "run" \/ ~fires THEN c
        ELSE IF s.startFrom = "bot" /\ s.gettedToTop <= s.howMuchGettedToTop
        THEN [c EXCEPT !.out = "return"]
        ELSE IF throws
        THEN [c EXCEPT !.i = i1, !.out = "throw"]
        ELSE IF lastItem = 0
        THEN [c EXCEPT !.i = i1, !.out = "return"]
        ELSE ScrollFetch(
                 [c EXCEPT !.i = i2, !.setParams = TRUE,
                           !.params = SetParams(c.params, s.relativeParamsKey,
                                                s.upOrDownParamsKey, lastItem, "false")],
                 h, "bot")

handleScrollUpdate(h, i, prm, scrollTop, scrollHeight, clientHeight) ==
    LET ds == i.options.dataScope
        s == [ topPercentage |-> ds.topPercentage,
               botPercentage |-> ds.botPercentage,
               startFrom |-> ds.startFrom,
               relativeParamsKey |-> ds.relativeParamsKey,
               upOrDownParamsKey |-> ds.upOrDownParamsKey,
               howMuchGettedToTop |-> ds.howMuchGettedToTop,
               gettedToTop |-> i.gettedToTop,
               isHaveMoreBot |-> i.isHaveMoreBot,
               isHaveMoreTop |-> i.isHaveMoreTop,
               isTopPending |-> i.isTopPending,
               isBotPending |-> i.isBotPending ]
        c0 == [ i |-> [i EXCEPT !.scrollProgress =
                          ScrollProgress(scrollTop, scrollHeight, clientHeight)],
                started |-> <<>>, params |-> prm, setParams |-> FALSE, out |-> "run" ]
    IN  ScrollBotSection(ScrollTopSection(c0, h, s), h, s)

\* MobxSaiFetch.reset
reset(i) ==
    [i EXCEPT !.isPending = FALSE, !.isFulfilled = FALSE, !.isRejected = FALSE,
              !.status = "pending", !.data = Null, !.error = "null",
              !.addedToEndCount = 0, !.addedToStartCount = 0, !.fetchedCount = 0,
              !.scrollProgress = 0, !.gettedToTop = 0, !.scrollCachedData = <<>>,
              !.botStatus = "", !.topStatus = "",
              !.isBotPending = FALSE, !.isBotRejected = FALSE, !.isBotFulfulled = FALSE,
              !.isTopPending = FALSE, !.isTopRejected = FALSE, !.isTopFulfulled = FALSE,
              !.topError = "null", !.botError = "null",
              !.isHaveMoreBot = TRUE, !.isHaveMoreTop = TRUE,
              !.oldOptions = <<>>]

-----------------------------------------------------------------------------
(* The factory mobxSaiFetch and clearMobxSaiFetchCache *)

\* const { id, fetchIfPending = false, fetchIfHaveData = true } = options
OptionOr(options, key, dflt) == IF key \in DOMAIN options THEN options[key] ELSE dflt

\* options.page && options.pageSetterName && options.isFetchUp
PageDown(options) ==
    /\ OptionOr(options, "page", "null") # "null"
    /\ OptionOr(options, "pageSetterName", "") # ""
    /\ OptionOr(options, "isFetchUp", FALSE)

\* the list the cached-snapshot step takes from the caller's cache: [] unless
\* options.cacheSystem gives setCache and limit, instance.data is empty and
\* the cache holds at least limit items
CachedArr(i, options, cache) ==
    LET cs == Sub(options, "cacheSystem")
        limit == OptionOr(cs, "limit", 0)
    IN  IF /\ OptionOr(cs, "setCache", "null") = "cache"
           /\ ~Truthy(i.data)
           /\ limit # 0
           /\ ~(Len(cache.v) = 0 \/ Len(cache.v) < limit)
        THEN cache.v ELSE <<>>

\* { ...instance, data: { ...instance?.data, [options.fetchAddTo.path]: cachedArr } }:
\* the data of the copy that is returned
SnapshotData(i, options, cachedArr) ==
    WithProp(IF IsObject(i.data) THEN i.data ELSE Obj(<<>>),
             OptionOr(options.fetchAddTo, "path", "undefined"),
             Lst(cachedArr))

\* if (id && fetchCache.has(id)) { ... }: the call on a cached instance.
\* ret is "instance" (the cached instance is returned), "copy" (the transient
\* { ...instance, data } is returned) or "throw"
mobxSaiFetchCached(h, i, thunk, options, cache, pg) ==
    LET i1 == [i EXCEPT !.options = MergeOptions(i.options, options)]
        pg1 == IF PageDown(options) THEN pg - 1 ELSE pg
        cachedArr == CachedArr(i, options, cache)
        f == fetch(h, [i1 EXCEPT !.promiseOrFunction = thunk], thunk, "null", "null")
        none == [ inst |-> i1, started |-> <<>>, page |-> pg, ret |-> "instance",
                  fetch |-> "none", data |-> Null ]
    IN  IF ~OptionOr(options, "fetchIfPending", FALSE) /\ i.isPending THEN none
        ELSE IF ~OptionOr(options, "fetchIfHaveData", TRUE) /\ Truthy(i.data) THEN none
        ELSE IF cachedArr # <<>>
        THEN IF "fetchAddTo" \in DOMAIN options
             THEN [none EXCEPT !.page = pg1, !.ret = "copy",
                               !.data = SnapshotData(i, options, cachedArr)]
             ELSE [none EXCEPT !.page = pg1, !.ret = "throw"]
        ELSE [ inst |-> f.inst, started |-> f.started, page |-> pg1,
               ret |-> IF f.out = "threw" THEN "throw" ELSE "instance",
               fetch |-> f.out, data |-> Null ]

\* the call that finds no cached instance: new MobxSaiFetch(options), then fetch
mobxSaiFetchNew(h, thunk, options, pg) ==
    LET f == fetch(h, [NewInstance(options) EXCEPT !.promiseOrFunction = thunk],
                   thunk, "null", "null")
    IN  [ inst |-> f.inst, started |-> f.started, page |-> pg,
          ret |-> IF f.out = "threw" THEN "throw" ELSE "instance",
          fetch |-> f.out, data |-> Null ]

-----------------------------------------------------------------------------
(* mobxSaiHandler *)

\* reaction(() => [sai.data, sai.error], effect): what mobxSaiHandler keeps.
\* onSuccess and guard are "returns"/"throws" and "none"/"accepts"/"rejects";
\* calls lists the callbacks invoked so far
Reaction(h, onSuccess, onError, guard) ==
    [ h |-> h, onSuccess |-> onSuccess, onError |-> onError, guard |-> guard,
      calls |-> <<>>, disposed |-> FALSE ]

\* one callback call and the disposer() after it, which a throw skips
Invoke(r, callback, kind) ==
    [r EXCEPT !.calls = Append(@, callback), !.disposed = (kind # "throws")]

\* the effect ([data, error]) => { ... } on the instance as it is now
effect(r, i) ==
    IF i.error # "null"
    THEN IF r.onError = "none" THEN [r EXCEPT !.disposed = TRUE]
         ELSE Invoke(r, "onError", r.onError)
    ELSE IF Truthy(i.data) /\ r.guard # "rejects"
    THEN Invoke(r, "onSuccess", r.onSuccess)
    ELSE r

\* the reactions after a batch in which instance h became i; changed tells
\* that the batch assigned another value to its data or to its error
React(hs, h, i, changed) ==
    [ n \in DOMAIN hs |->
        IF changed /\ hs[n].h = h /\ ~hs[n].disposed THEN effect(hs[n], i) ELSE hs[n] ]

-----------------------------------------------------------------------------
(* class MobxDebouncer *)

\* A string is the sequence of its characters.
\* `${groupKey}_${key}`
ActionKey(groupKey, key) == groupKey \o <<"_">> \o key

\* s.startsWith(prefix)
StartsWith(s, prefix) ==
    Len(s) >= Len(prefix) /\ SubSeq(s, 1, Len(prefix)) = prefix

\* what Map.get gives for a key the map does not hold: no DebouncedAction,
\* no Set of actions
NoEntry == [timerId |-> 0, pendingActions |-> <<>>]
NoActions == {}

\* A callback is known by its number n, the n-th one handed to
\* debouncedAction; its timeout has the same number.  The record of a
\* callback: the arguments it was registered with, what it does when run
\* ("returns", "throws", or "registers": it calls debouncedAction for its
\* own key), how often it has run, and how its registration
\* ended if it did ("replaced" by a later one, "cancelled", else "no").
Callback(groupKey, key, kind, replaces) ==
    [ groupKey |-> groupKey, key |-> key, kind |-> kind, runs |-> 0,
      ended |-> "no", replaces |-> replaces ]

\* the state of the debouncer and of the timeouts and callbacks around it
Debouncer(da, ar, ts, cbs) ==
    [ debouncedActions |-> da, actionRegistry |-> ar, timers |-> ts,
      callbacks |-> cbs, threw |-> FALSE ]

\* clearTimeout under no test: every timeout is left to run
ClearTimeoutNever(ts, timerId) == ts

\* if (currentState?.timerId) clearTimeout(currentState.timerId)
ClearTimeout(ts, timerId) == IF timerId # 0 THEN ts \ {timerId} ELSE ts

\* the callbacks of numbers in ns end as how
End(cbs, ns, how) ==
    [n \in DOMAIN cbs |-> IF n \in ns THEN [cbs[n] EXCEPT !.ended = how] ELSE cbs[n]]

\* actions.forEach(action => action()): every action of the set runs, unless
\* one throws (a set holds one action, see debouncedAction)
ForEach(cbs, actions) ==
    [n \in DOMAIN cbs |-> IF n \in actions THEN [cbs[n] EXCEPT !.runs = @ + 1]
                          ELSE cbs[n]]
ForEachThrows(cbs, actions) == \E n \in actions : cbs[n].kind = "throws"

\* debouncedAction(key, action, delay, groupKey), action being the callback
\* of the next number
debouncedAction(d, key, kind, groupKey) ==
    LET actionKey == ActionKey(groupKey, key)
        n == Len(d.callbacks) + 1
        old == d.actionRegistry[actionKey]
        currentState == d.debouncedActions[actionKey]
        \* the callback whose timeout this call clears before it has run
        replaces == IF currentState.timerId \in d.timers
                    THEN currentState.timerId ELSE 0
    IN  [ d EXCEPT
            !.actionRegistry = [@ EXCEPT ![actionKey] = {n}],
            !.timers = ClearTimeout(@, currentState.timerId) \cup {n},
            !.debouncedActions =
                [@ EXCEPT ![actionKey] = [timerId |-> n, pendingActions |-> <<n>>]],
            !.callbacks = Append(End(@, old, "replaced"),
                                 Callback(groupKey, key, kind, replaces)) ]

\* what the actions of a set do to the debouncer while forEach runs them: an
\* action of kind "registers" calls debouncedAction with its own key and
\* groupKey and a callback that returns
Registering(d, actions) ==
    IF \E n \in actions : d.callbacks[n].kind = "registers"
    THEN LET n == CHOOSE n \in actions : d.callbacks[n].kind = "registers"
         IN  debouncedAction(d, d.callbacks[n].key, "returns", d.callbacks[n].groupKey)
    ELSE d

\* the function debouncedAction handed to setTimeout, for timeout t
timeout(d, t) ==
    LET actionKey == ActionKey(d.callbacks[t].groupKey, d.callbacks[t].key)
        actions == d.actionRegistry[actionKey]
        d1 == [d EXCEPT !.timers = @ \ {t}]
        d2 == Registering([d1 EXCEPT !.callbacks = ForEach(@, actions)], actions)
    IN  IF actions # NoActions
        THEN IF ForEachThrows(d.callbacks, actions)
             THEN [d1 EXCEPT !.callbacks = ForEach(@, actions), !.threw = TRUE]
             ELSE [d2 EXCEPT !.actionRegistry = [@ EXCEPT ![actionKey] = NoActions],
                             !.debouncedActions = [@ EXCEPT ![actionKey] = NoEntry]]
        ELSE [d1 EXCEPT !.debouncedActions = [@ EXCEPT ![actionKey] = NoEntry]]

\* flushDebouncedActions(key, groupKey)
flushDebouncedActions(d, key, groupKey) ==
    LET actionKey == ActionKey(groupKey, key)
        currentState == d.debouncedActions[actionKey]
        actions == d.actionRegistry[actionKey]
        d1 == [d EXCEPT !.timers = ClearTimeout(@, currentState.timerId)]
        d2 == Registering([d1 EXCEPT !.callbacks = ForEach(@, actions)], actions)
    IN  IF actions # NoActions
        THEN IF ForEachThrows(d.callbacks, actions)
             THEN [d1 EXCEPT !.callbacks = ForEach(@, actions), !.threw = TRUE]
             ELSE [d2 EXCEPT !.actionRegistry = [@ EXCEPT ![actionKey] = NoActions],
                             !.debouncedActions = [@ EXCEPT ![actionKey] = NoEntry]]
        ELSE [d1 EXCEPT !.debouncedActions = [@ EXCEPT ![actionKey] = NoEntry]]

\* cancelDebouncedActions(key, groupKey)
cancelDebouncedActions(d, key, groupKey) ==
    LET actionKey == ActionKey(groupKey, key)
        currentState == d.debouncedActions[actionKey]
    IN  [ d EXCEPT
            !.timers = ClearTimeout(@, currentState.timerId),
            !.callbacks = End(@, d.actionRegistry[actionKey], "cancelled"),
            !.actionRegistry = [@ EXCEPT ![actionKey] = NoActions],
            !.debouncedActions = [@ EXCEPT ![actionKey] = NoEntry] ]

\* cancelDebouncedActionsByGroup(groupKey)
cancelDebouncedActionsByGroup(d, groupKey) ==
    LET keysToDelete ==
            { key \in DOMAIN d.debouncedActions :
                /\ d.debouncedActions[key] # NoEntry
                /\ StartsWith(key, groupKey \o <<"_">>) }
        cleared == { d.debouncedActions[key].timerId : key \in keysToDelete }
        dropped == UNION { d.actionRegistry[key] : key \in keysToDelete }
    IN  [ d EXCEPT
            !.timers = @ \ cleared,
            !.callbacks = End(@, dropped, "cancelled"),
            !.actionRegistry =
                [key \in DOMAIN @ |-> IF key \in keysToDelete THEN NoActions ELSE @[key]],
            !.debouncedActions =
                [key \in DOMAIN @ |-> IF key \in keysToDelete THEN NoEntry ELSE @[key]] ]

\* cancelAllDebouncedActions()
cancelAllDebouncedActions(d) ==
    LET cleared == { d.debouncedActions[key].timerId : key \in DOMAIN d.debouncedActions }
        dropped == UNION { d.actionRegistry[key] : key \in DOMAIN d.actionRegistry }
    IN  [ d EXCEPT
            !.timers = @ \ cleared,
            !.callbacks = End(@, dropped, "cancelled"),
            !.actionRegistry = [key \in DOMAIN @ |-> NoActions],
            !.debouncedActions = [key \in DOMAIN @ |-> NoEntry] ]

-----------------------------------------------------------------------------
(* class ValidationSchema *)

\* one round of the loop of extend on this.validators = current: the
\* validators of field afterwards
ExtendField(current, newValidators, override, field) ==
    IF override \/ ~Truthy(Prop(current, field))
    THEN Lst(newValidators[field])
    ELSE Lst(Prop(current, field).v \o newValidators[field])

\* extend under override = true, whatever the caller passed
extendOverriding(current, newValidators, override) ==
    Obj([ field \in DOMAIN current.v \cup DOMAIN newValidators |->
            IF field \in DOMAIN newValidators
            THEN ExtendField(current, newValidators, TRUE, field)
            ELSE current.v[field] ])

\* extend(newValidators, override): this.validators after the loop over the
\* fields of newValidators
extend(current, newValidators, override) ==
    Obj([ field \in DOMAIN current.v \cup DOMAIN newValidators |->
            IF field \in DOMAIN newValidators
            THEN ExtendField(current, newValidators, override, field)
            ELSE current.v[field] ])

\* What a validator returns depends on the values it is given: values is
\* modelled by the table of what each validator returns on it, "true", "false"
\* (anything that is neither true nor a string) or "message" (a string, here
\* the validator's name).

\* the validators of vs that do not return true on values, by position
Failing(vs, values) == { i \in 1 .. Len(vs) : values[vs[i]] # "true" }

\* the inner loop of validate without its break: every validator is invoked
\* and the last failure is the one reported
ValidateFieldNoBreak(vs, values) ==
    LET failing == Failing(vs, values) IN
    [ invoked |-> Len(vs),
      failed |-> IF failing = {} THEN 0
                 ELSE CHOOSE i \in failing : \A j \in failing : j <= i ]

\* for (const validate of validators) { ...; if (validationResult !== true)
\* { ...; break } }: how many validators were invoked, and which one failed
\* (0 when none did)
ValidateField(vs, values) ==
    LET failing == Failing(vs, values)
        first == CHOOSE i \in failing : \A j \in failing : i <= j
    IN  IF failing = {} THEN [invoked |-> Len(vs), failed |-> 0]
        ELSE [invoked |-> first, failed |-> first]

\* typeof validationResult === 'string' ? validationResult : `Invalid value for ${field}`
ErrorMessage(field, validator, values) ==
    IF values[validator] = "message" THEN validator
    ELSE "Invalid value for " \o field

\* validate(values) on this.validators = current
validate(current, values) ==
    LET run == [field \in DOMAIN current.v |-> ValidateField(current.v[field].v, values)]
        failed == { field \in DOMAIN current.v : run[field].failed # 0 }
    IN  [ success |-> failed = {},
          errors |-> [ key \in { field \o "Err" : field \in failed } |->
                         LET field == CHOOSE f \in failed : f \o "Err" = key
                         IN  ErrorMessage(field, current.v[field].v[run[field].failed],
                                          values) ],
          invoked |-> [field \in DOMAIN current.v |-> run[field].invoked] ]

-----------------------------------------------------------------------------
(* class MobxUpdater *)

\* In this part a key or a path is the sequence of its characters, an item of
\* a list is a JavaScript value, and a function updater is known by its name.

\* s.includes(c)
Includes(s, c) == \E i \in 1 .. Len(s) : s[i] = c

\* s.split(c) for the characters c of seps: the pieces of s between them
RECURSIVE Split(_, _)
Split(s, seps) ==
    IF \A i \in 1 .. Len(s) : s[i] \notin seps THEN << s >>
    ELSE LET i == CHOOSE i \in 1 .. Len(s) :
                    s[i] \in seps /\ \A j \in 1 .. i - 1 : s[j] \notin seps
         IN  << SubSeq(s, 1, i - 1) >> \o Split(SubSeq(s, i + 1, Len(s)), seps)

\* .filter(Boolean) on a list of strings
RECURSIVE FilterBoolean(_)
FilterBoolean(ss) ==
    IF ss = <<>> THEN <<>>
    ELSE (IF Head(ss) = <<>> THEN <<>> ELSE << Head(ss) >>) \o FilterBoolean(Tail(ss))

\* Number(index) for a string of decimal digits
Digit(c) == CHOOSE n \in 0 .. 9 : <<"0", "1", "2", "3", "4", "5", "6", "7", "8", "9">>[n + 1] = c
RECURSIVE ToNumber(_)
ToNumber(s) ==
    IF s = <<>> THEN 0 ELSE 10 * ToNumber(SubSeq(s, 1, Len(s) - 1)) + Digit(s[Len(s)])

\* arr[n] and arr[n] = val for a list (slots skipped by the write are undefined)
At(arr, n) == IF IsArray(arr) /\ n < Len(arr.v) THEN arr.v[n + 1] ELSE Undefined
WithAt(arr, n, val) ==
    Lst([ i \in 1 .. Max(Len(arr.v), n + 1) |->
            IF i = n + 1 THEN val
            ELSE IF i <= Len(arr.v) THEN arr.v[i] ELSE Undefined ])

\* updater(prevValue) for the function updater: the next number, 0 when
\* prevValue is no number
ApplyUpdater(updater, prevValue) ==
    IF updater.k # "function" THEN updater
    ELSE IF prevValue.k = "num" THEN Num((prevValue.v + 1) % 2) ELSE Num(0)

\* if (target && lastKey) { target[lastKey] = ... }: target afterwards
SetLastKey(target, lastKey, updater) ==
    IF Truthy(target) /\ lastKey # <<>> /\ IsObject(target)
    THEN WithProp(target, lastKey, ApplyUpdater(updater, Prop(target, lastKey)))
    ELSE target

\* keys.reduce(...) followed by the write at lastKey: acc afterwards, the
\* objects on the way being changed in place
RECURSIVE Reduce(_, _, _, _)
Reduce(acc, keys, lastKey, updater) ==
    IF keys = <<>> THEN SetLastKey(acc, lastKey, updater)
    ELSE LET k == Head(keys) IN
         IF Includes(k, "[")
         THEN LET parts == FilterBoolean(Split(k, {"[", "]"}))
                  arrayKey == parts[1]
                  index == ToNumber(parts[2])
                  arr == IF ~Truthy(Prop(acc, arrayKey)) THEN Lst(<<>>)
                         ELSE Prop(acc, arrayKey)
                  slot == IF ~Truthy(At(arr, index)) THEN Obj(<<>>) ELSE At(arr, index)
              IN  WithProp(acc, arrayKey,
                           WithAt(arr, index, Reduce(slot, Tail(keys), lastKey, updater)))
         ELSE LET next == IF ~Truthy(Prop(acc, k)) THEN Obj(<<>>) ELSE Prop(acc, k)
              IN  WithProp(acc, k, Reduce(next, Tail(keys), lastKey, updater))

\* deepUpdate(obj, key, updater): obj afterwards
deepUpdate(obj, key, updater) ==
    LET keys == Split(key, {"."}) IN
    Reduce(obj, SubSeq(keys, 1, Len(keys) - 1), keys[Len(keys)], updater)

\* arrayOrObject.find((item) => item.id === id): its position, 0 when none
Find(array, id) ==
    IF \E i \in 1 .. Len(array.v) : Prop(array.v[i], <<"i", "d">>) = id
    THEN CHOOSE i \in 1 .. Len(array.v) :
           /\ Prop(array.v[i], <<"i", "d">>) = id
           /\ \A j \in 1 .. i - 1 : Prop(array.v[j], <<"i", "d">>) # id
    ELSE 0

\* updateState under no test of the id: the first item is the one updated
updateStateFirstItem(array, id, key, updater) ==
    Lst([array.v EXCEPT ![1] = deepUpdate(@, key, updater)])

\* updateState(arrayOrObject, id, key, updater): the array afterwards
updateState(array, id, key, updater) ==
    LET i == Find(array, id) IN
    IF i # 0 /\ Truthy(array.v[i])
    THEN Lst([array.v EXCEPT ![i] = deepUpdate(@, key, updater)])
    ELSE array

-----------------------------------------------------------------------------
(* The inputs of the model *)

Ids == {"a"}

\* the thunks a caller supplies: an async function, or one that throws when
\* it is invoked
Thunks == {"async", "throws"}

Errors == {"E1"}

\* fromWhere and fetchWhat of a call of fetch: a primary call, or a call as
\* handleScrollUpdate makes it
FetchKinds == { <<"null", "null">>, <<"fromScroll", "top">>, <<"fromScroll", "bot">> }

\* the options objects the callers pass: admission control and pending state
CallOptions ==
    { NoOptions,
      [id |-> "a"],
      [id |-> "a", fetchIfPending |-> TRUE],
      [id |-> "a", needPending |-> FALSE],
      [id |-> "a", fetchIfHaveData |-> FALSE,
       dataScope |-> [isHaveMoreResKey |-> "more"]] }

\* the options objects of callers that wait for an outcome
LiveCallOptions ==
    { [id |-> "a"],
      [id |-> "a", fetchIfPending |-> TRUE] }

\* the options objects of callers that do not refetch what they have
GuardOptions ==
    { [id |-> "a", fetchIfHaveData |-> FALSE,
       dataScope |-> [isHaveMoreResKey |-> "more"]] }

\* the options objects of callers that keep a cache of the last window
SnapshotOptions ==
    { [id |-> "a", cacheSystem |-> [limit |-> 2, setCache |-> "cache"]],
      [id |-> "a", isSetData |-> FALSE,
       cacheSystem |-> [limit |-> 2, setCache |-> "cache"],
       fetchAddTo |-> [path |-> "items", setArrCallback |-> "arr"]] }

\* the options objects of callers that page a list by scrolling
ScrollCallOptions ==
    { [id |-> "a",
       cacheSystem |-> [limit |-> 2, setCache |-> "cache"],
       dataScope |-> [class |-> "scroller", topPercentage |-> 20, botPercentage |-> 80,
                      setParams |-> "params", relativeParamsKey |-> "rel",
                      upOrDownParamsKey |-> "up", isHaveMoreResKey |-> "more",
                      howMuchGettedToTop |-> 1],
       fetchAddTo |-> [path |-> "items"]] }

\* the options objects of callers whose top and bottom thresholds overlap
BothCallOptions ==
    { [id |-> "a",
       dataScope |-> [class |-> "scroller", topPercentage |-> 60, botPercentage |-> 40,
                      setParams |-> "params", relativeParamsKey |-> "rel",
                      upOrDownParamsKey |-> "up", howMuchGettedToTop |-> 1],
       fetchAddTo |-> [path |-> "items"]] }

\* the options objects of callers that page a list of two items a page
PagedCallOptions ==
    { [id |-> "a",
       cacheSystem |-> [limit |-> 2, setCache |-> "cache"],
       dataScope |-> [class |-> "scroller", topPercentage |-> 20, botPercentage |-> 80,
                      setParams |-> "params", relativeParamsKey |-> "rel",
                      upOrDownParamsKey |-> "up", howMuchGettedToTop |-> 1],
       fetchAddTo |-> [path |-> "items"]] }

\* the options objects of callers that page a list from its top, or from its
\* bottom
OriginCallOptions ==
    { [cacheSystem |-> [limit |-> 2, setCache |-> "cache"],
        dataScope |-> [class |-> "scroller", startFrom |-> startFrom,
                      topPercentage |-> 20, botPercentage |-> 80,
                      setParams |-> "params", relativeParamsKey |-> "rel",
                      upOrDownParamsKey |-> "up", howMuchGettedToTop |-> 1],
       fetchAddTo |-> [path |-> "items"]] : startFrom \in {"top", "bot"} }

\* the options objects of callers that merge pages into a list, or link a
\* page counter
MergeCallOptions ==
    { [id |-> "a", fetchAddTo |-> [path |-> "items"]],
      [id |-> "a", fetchAddTo |-> [path |-> "items", addTo |-> "start"]],
      [id |-> "a", fetchAddTo |-> [path |-> "items", addTo |-> "start",
                                   setArrCallback |-> "arr"]],
      [id |-> "a", page |-> "page", pageSetterName |-> "setPage",
       isSetData |-> FALSE] }

\* the options objects of callers that page a list by scrolling and later ask
\* for the result without storing it
WindowCallOptions ==
    { [id |-> "a",
       cacheSystem |-> [limit |-> 2, setCache |-> "cache"],
       dataScope |-> [class |-> "scroller", topPercentage |-> 20, botPercentage |-> 80,
                      setParams |-> "params", relativeParamsKey |-> "rel",
                      upOrDownParamsKey |-> "up", isHaveMoreResKey |-> "more",
                      howMuchGettedToTop |-> 1],
       fetchAddTo |-> [path |-> "items"]],
      [id |-> "a", isSetData |-> FALSE,
       cacheSystem |-> [limit |-> 2, setCache |-> "cache"],
       dataScope |-> [class |-> "scroller", topPercentage |-> 20, botPercentage |-> 80,
                      setParams |-> "params", relativeParamsKey |-> "rel",
                      upOrDownParamsKey |-> "up", isHaveMoreResKey |-> "more",
                      howMuchGettedToTop |-> 1],
       fetchAddTo |-> [path |-> "items"]] }

\* what a thunk's promise resolves to
Results ==
    { Obj([items |-> Lst(<<0, 1>>)]),
      Obj([items |-> Lst(<<2>>), more |-> Bool(FALSE)]) }

\* results whose last item carries no id
WindowResults ==
    { Obj([items |-> Lst(<<1, 0>>)]),
      Obj([items |-> Lst(<<2>>), more |-> Bool(FALSE)]) }

\* scrollTop, scrollHeight, clientHeight of the scroll events
ScrollEvents == { <<0, 200, 100>>, <<100, 200, 100>> }

\* a scroll event in the middle, and one at the bottom
BothEvents == { <<50, 200, 100>>, <<100, 200, 100>> }

\* the group names, keys and kinds of callback of the debouncer's callers; one
\* group's name followed by "_" starts the other's
Groups == { <<"g">>, <<"g", "_", "x">> }
Keys == { <<"1">> }
CallbackKinds == { "returns", "throws" }
ActionKeys == { ActionKey(groupKey, key) : groupKey \in Groups, key \in Keys }

\* the fields and validators of the schemas' callers, and the arguments they
\* pass to extend: one validator for some of the fields
Fields == { "name", "email" }
ValidatorNames == { "v1", "v2" }
NewValidators ==
    UNION { [fields -> { <<v>> : v \in ValidatorNames }] :
              fields \in SUBSET Fields \ {{}} }

\* the values handed to validate, by what each validator returns on them
Values == [ValidatorNames -> { "true", "false", "message" }]

\* the updater's callers: the items they start with, and the ids, paths and
\* updaters they pass ('a.b.c', 't[1]'; the literal 5 or a function)
Items ==
    Lst(<< Obj((<<"i", "d">> :> Num(1))),
           Obj((<<"i", "d">> :> Num(2)) @@ (<<"t">> :> Lst(<<Num(1), Num(2)>>))) >>)
ItemIds == { Num(1), Num(2), Num(3) }
Paths == { <<"a", ".", "b", ".", "c">>, <<"t", "[", "1", "]">> }
Updaters == { Num(5), [k |-> "function", v |-> "next"] }

Handles == 1 .. Len(insts)

\* the callbacks and guards handed to mobxSaiHandler
\* (onSuccess, onError, guard)
HandlerKinds ==
    { <<"returns", "returns", "none">>,
      <<"throws", "none", "accepts">>,
      <<"returns", "throws", "rejects">> }

\* the lists of the model stay within MaxList items
ListLen(x) == IF IsArray(x) THEN Len(x.v) ELSE 0
Bounded(i, arr, cache) ==
    /\ ListLen(Prop(i.data, "items")) <= MaxList
    /\ ListLen(arr) <= MaxList
    /\ ListLen(cache) <= MaxList

\* what a call handed back: the instance h itself, a copy of it with its own
\* data, or an exception; for a .then callback, the result it was given
Ref(kind, h, data) == [kind |-> kind, h |-> h, data |-> data]
NoRef == Ref("none", 0, Null)

\* the record of the call or .then callback that ran last
Last(op, h, options, fromWhere, fetchWhat, ret, out) ==
    [ op |-> op, h |-> h, options |-> options, fromWhere |-> fromWhere,
      fetchWhat |-> fetchWhat, ret |-> ret, fetch |-> out ]

\* the record of a call of the debouncer, or of a timeout that ran: threw
\* says whether an exception left it
DebouncerCall(op, groupKey, key, threw) ==
    [ op |-> op, groupKey |-> groupKey, key |-> key, threw |-> threw ]

\* the record of a call of extend
ExtendCall(newValidators, override) ==
    [ op |-> "extend", newValidators |-> newValidators, override |-> override ]

\* the record of a call of validate, with what it returned and how many
\* validators of each field it invoked
ValidateCall(values, result) ==
    [ op |-> "validate", values |-> values, success |-> result.success,
      errors |-> result.errors, invoked |-> result.invoked ]

\* the record of a call of the function getUpdater returned
UpdateCall(id, key, updater) ==
    [ op |-> "updateState", id |-> id, key |-> key, updater |-> updater ]

\* after any other step
HandlerCall(op, n) == [op |-> op, n |-> n]

NoCall == Last("none", 0, NoOptions, "null", "null", NoRef, "none")

-----------------------------------------------------------------------------
(* The state machine *)

Init ==
    /\ fetchCache = [id \in Ids |-> 0]
    /\ insts = <<>>
    /\ promises = <<>>
    /\ page = 1
    /\ cacheList = Lst(<<>>)
    /\ arrList = Lst(<<>>)
    /\ params = [rel |-> 0, up |-> "unset"]
    /\ thunkCalls = 0
    /\ firstRef = [id \in Ids |-> NoRef]
    /\ last = NoCall
    /\ debouncedActions = [actionKey \in ActionKeys |-> NoEntry]
    /\ actionRegistry = [actionKey \in ActionKeys |-> NoActions]
    /\ timers = {}
    /\ callbacks = <<>>
    /\ validators = Obj(<<>>)
    /\ collection = Items
    /\ handlers = <<>>

\* CacheHit of a factory that never looks an id up
CacheHitNever(id) == FALSE

\* id && fetchCache.has(id)
CacheHit(id) == id # "" /\ fetchCache[id] # 0

Calls(out) == IF out \in {"invoked", "threw"} THEN 1 ELSE 0

\* mobxSaiFetch(thunk, options), in a run of at most budget thunk calls
MobxSaiFetchWithin(thunk, options, budget) ==
    LET id == OptionOr(options, "id", "")
        cached == CacheHit(id)
        h == IF cached THEN fetchCache[id] ELSE Len(insts) + 1
        r == IF cached
             THEN mobxSaiFetchCached(h, insts[h], thunk, options, cacheList, page)
             ELSE mobxSaiFetchNew(h, thunk, options, page)
        ref == Ref(r.ret, IF r.ret = "throw" THEN 0 ELSE h, r.data)
    IN  /\ cached \/ Len(insts) < MaxInst
        /\ thunkCalls + Calls(r.fetch) <= budget
        /\ insts' = IF cached THEN [insts EXCEPT ![h] = r.inst]
                    ELSE IF r.ret = "throw" THEN insts
                    ELSE Append(insts, r.inst)
        /\ fetchCache' = IF ~cached /\ id # "" /\ r.ret # "throw"
                         THEN [fetchCache EXCEPT ![id] = h] ELSE fetchCache
        /\ promises' = promises \o r.started
        /\ page' = r.page
        /\ thunkCalls' = thunkCalls + Calls(r.fetch)
        /\ firstRef' = IF id # "" /\ r.ret # "throw" /\ firstRef[id] = NoRef
                       THEN [firstRef EXCEPT ![id] = ref] ELSE firstRef
        /\ last' = Last("mobxSaiFetch", IF r.ret = "throw" /\ ~cached THEN 0 ELSE h,
                        options, "null", "null", ref, r.fetch)
        /\ handlers' = React(handlers, h, r.inst,
                              cached /\ r.inst.error # insts[h].error)
        /\ UNCHANGED <<cacheList, arrList, params>>
        /\ UNCHANGED toolVars

\* mobxSaiFetch(thunk, options)
MobxSaiFetch(thunk, options) == MobxSaiFetchWithin(thunk, options, MaxCalls)

\* instance.fetch(thunk, fromWhere, fetchWhat), called by the holder of an instance
Fetch(h, thunk, fromWhere, fetchWhat) ==
    LET r == fetch(h, insts[h], thunk, fromWhere, fetchWhat) IN
    /\ thunkCalls + Calls(r.out) <= MaxCalls
    /\ insts' = [insts EXCEPT ![h] = r.inst]
    /\ promises' = promises \o r.started
    /\ thunkCalls' = thunkCalls + Calls(r.out)
    /\ last' = Last("fetch", h, NoOptions, fromWhere, fetchWhat,
                    IF r.out = "threw" THEN Ref("throw", 0, Null)
                    ELSE Ref("instance", h, Null),
                    r.out)
    /\ handlers' = React(handlers, h, r.inst, r.inst.error # insts[h].error)
    /\ UNCHANGED <<fetchCache, page, cacheList, arrList, params, firstRef>>
    /\ UNCHANGED toolVars

\* a scroll event of the element the constructor found for dataScope.class,
\* in a run of at most budget thunk calls
HandleScrollUpdateWithin(h, ev, budget) ==
    LET r == handleScrollUpdate(h, insts[h], params, ev[1], ev[2], ev[3])
        n == Len(r.started) + (IF r.out = "throw" /\ r.setParams THEN 1 ELSE 0)
    IN  /\ insts[h].tracking
        /\ thunkCalls + n <= budget
        /\ insts' = [insts EXCEPT ![h] = r.i]
        /\ promises' = promises \o r.started
        /\ params' = r.params
        /\ thunkCalls' = thunkCalls + n
        /\ last' = Last("handleScrollUpdate", h, NoOptions, "fromScroll", "null",
                        IF r.out = "throw" THEN Ref("throw", 0, Null) ELSE NoRef,
                        IF r.started # <<>> THEN "invoked" ELSE "none")
        /\ UNCHANGED <<fetchCache, page, cacheList, arrList, firstRef, handlers>>
        /\ UNCHANGED toolVars

\* a scroll event of the element the constructor found for dataScope.class
HandleScrollUpdate(h, ev) == HandleScrollUpdateWithin(h, ev, MaxScroll)

\* instance.reset()
Reset(h) ==
    /\ insts' = [insts EXCEPT ![h] = reset(insts[h])]
    /\ last' = Last("reset", h, NoOptions, "null", "null", Ref("instance", h, Null), "none")
    /\ handlers' = React(handlers, h, reset(insts[h]),
                          insts[h].data # Null \/ insts[h].error # "null")
    /\ UNCHANGED <<fetchCache, promises, page, cacheList, arrList, params,
                   thunkCalls, firstRef>>
    /\ UNCHANGED toolVars

\* clearMobxSaiFetchCache(id) and clearMobxSaiFetchCache()
ClearMobxSaiFetchCache(ids) ==
    /\ fetchCache' = [id \in Ids |-> IF id \in ids THEN 0 ELSE fetchCache[id]]
    /\ firstRef' = [id \in Ids |-> IF id \in ids THEN NoRef ELSE firstRef[id]]
    /\ last' = NoCall
    /\ UNCHANGED <<insts, promises, page, cacheList, arrList, params, thunkCalls,
                   handlers>>
    /\ UNCHANGED toolVars

RemoveAt(s, k) == SubSeq(s, 1, k - 1) \o SubSeq(s, k + 1, Len(s))

\* the promise of invocation k is fulfilled with result: the .then callback runs
Resolve(k, result) ==
    LET p == promises[k]
        c == Then(insts[p.h], p, result, arrList, cacheList, page)
    IN  /\ p.phase = "pending"
        /\ Bounded(c.i, c.arr, c.cache)
        /\ insts' = [insts EXCEPT ![p.h] = c.i]
        /\ arrList' = c.arr
        /\ cacheList' = c.cache
        /\ page' = c.page
        /\ promises' = [promises EXCEPT ![k].phase =
                            IF c.out = "throw" THEN "thrown" ELSE "finally",
                                        ![k].err =
                            IF c.out = "throw" THEN "TypeError" ELSE @]
        /\ last' = Last("then", p.h, NoOptions, p.fromWhere, p.fetchWhat,
                        Ref("result", p.h, result), c.out)
        /\ handlers' = React(handlers, p.h, c.i, c.assigned)
        /\ UNCHANGED <<fetchCache, params, thunkCalls, firstRef>>
        /\ UNCHANGED toolVars

\* the promise of invocation k is rejected with err, or its .then callback
\* threw: the .catch callback runs
Reject(k, err) ==
    LET p == promises[k] IN
    /\ \/ p.phase = "pending" /\ err \in Errors
       \/ p.phase = "thrown" /\ err = p.err
    /\ insts' = [insts EXCEPT ![p.h] = Catch(insts[p.h], p, err)]
    /\ promises' = [promises EXCEPT ![k].phase = "finally", ![k].err = err]
    /\ last' = NoCall
    /\ handlers' = React(handlers, p.h, Catch(insts[p.h], p, err),
                          IsPrimary(p.fromWhere, p.fetchWhat))
    /\ UNCHANGED <<fetchCache, page, cacheList, arrList, params, thunkCalls, firstRef>>
    /\ UNCHANGED toolVars

\* the .finally callback of invocation k runs and the chain is finished
Settle(k) ==
    LET p == promises[k] IN
    /\ p.phase = "finally"
    /\ insts' = [insts EXCEPT ![p.h] = Finally(insts[p.h])]
    /\ promises' = RemoveAt(promises, k)
    /\ last' = NoCall
    /\ UNCHANGED <<fetchCache, page, cacheList, arrList, params, thunkCalls, firstRef,
                   handlers>>
    /\ UNCHANGED toolVars

\* the MobxDebouncer as it is, and as a call or a timeout leaves it
TheDebouncer == Debouncer(debouncedActions, actionRegistry, timers, callbacks)

Becomes(d) ==
    /\ debouncedActions' = d.debouncedActions
    /\ actionRegistry' = d.actionRegistry
    /\ timers' = d.timers
    /\ callbacks' = d.callbacks

\* the callbacks that will call debouncedAction when they run
ToRegister(cbs) ==
    Cardinality({ n \in DOMAIN cbs : cbs[n].kind = "registers" /\ cbs[n].runs = 0
                                     /\ cbs[n].ended = "no" })

\* mobxDebouncer.debouncedAction(key, action, delay, groupKey)
DebouncedAction(key, kind, groupKey) ==
    /\ Len(callbacks) + ToRegister(callbacks) + (IF kind = "registers" THEN 1 ELSE 0)
         < MaxActions
    /\ Becomes(debouncedAction(TheDebouncer, key, kind, groupKey))
    /\ last' = DebouncerCall("debouncedAction", groupKey, key, FALSE)
    /\ UNCHANGED <<fetchVars, validators, collection>>

\* the delay of timeout t has elapsed
Timeout(t) ==
    LET d == timeout(TheDebouncer, t) IN
    /\ t \in timers
    /\ Becomes(d)
    /\ last' = DebouncerCall("timeout", callbacks[t].groupKey, callbacks[t].key, d.threw)
    /\ UNCHANGED <<fetchVars, validators, collection>>

\* mobxDebouncer.flushDebouncedActions(key, groupKey)
FlushDebouncedActions(key, groupKey) ==
    LET d == flushDebouncedActions(TheDebouncer, key, groupKey) IN
    /\ \A n \in actionRegistry[ActionKey(groupKey, key)] : callbacks[n].runs < MaxRuns
    /\ Becomes(d)
    /\ last' = DebouncerCall("flushDebouncedActions", groupKey, key, d.threw)
    /\ UNCHANGED <<fetchVars, validators, collection>>

\* mobxDebouncer.cancelDebouncedActions(key, groupKey)
CancelDebouncedActions(key, groupKey) ==
    /\ Becomes(cancelDebouncedActions(TheDebouncer, key, groupKey))
    /\ last' = DebouncerCall("cancelDebouncedActions", groupKey, key, FALSE)
    /\ UNCHANGED <<fetchVars, validators, collection>>

\* mobxDebouncer.cancelDebouncedActionsByGroup(groupKey)
CancelDebouncedActionsByGroup(groupKey) ==
    /\ Becomes(cancelDebouncedActionsByGroup(TheDebouncer, groupKey))
    /\ last' = DebouncerCall("cancelDebouncedActionsByGroup", groupKey, <<>>, FALSE)
    /\ UNCHANGED <<fetchVars, validators, collection>>

\* mobxDebouncer.cancelAllDebouncedActions()
CancelAllDebouncedActions ==
    /\ Becomes(cancelAllDebouncedActions(TheDebouncer))
    /\ last' = DebouncerCall("cancelAllDebouncedActions", <<>>, <<>>, FALSE)
    /\ UNCHANGED <<fetchVars, validators, collection>>

\* schema.extend(newValidators, override)
Extend(newValidators, override) ==
    LET new == extend(validators, newValidators, override) IN
    /\ \A field \in DOMAIN new.v : Len(new.v[field].v) <= MaxValidators
    /\ validators' = new
    /\ last' = ExtendCall(newValidators, override)
    /\ UNCHANGED <<fetchVars, debouncedActions, actionRegistry, timers, callbacks,
                   collection>>

\* schema.validate(values)
Validate(values) ==
    /\ last' = ValidateCall(values, validate(validators, values))
    /\ UNCHANGED <<fetchVars, toolVars>>

\* mobxUpdater.getUpdater(collection)(id, key, updater)
UpdateState(id, key, updater) ==
    /\ collection' = updateState(collection, id, key, updater)
    /\ last' = UpdateCall(id, key, updater)
    /\ UNCHANGED <<fetchVars, debouncedActions, actionRegistry, timers, callbacks,
                   validators>>

\* the steps of the promise chains
\* mobxSaiHandler(sai, onSuccess, onError, guard) on the instance of handle h
MobxSaiHandler(h, onSuccess, onError, guard) ==
    /\ Len(handlers) < MaxHandlers
    /\ handlers' = Append(handlers, Reaction(h, onSuccess, onError, guard))
    /\ last' = HandlerCall("mobxSaiHandler", Len(handlers) + 1)
    /\ UNCHANGED <<fetchCache, insts, promises, page, cacheList, arrList, params,
                   thunkCalls, firstRef>>
    /\ UNCHANGED toolVars

\* the disposer mobxSaiHandler returned, called by its holder
Disposer(n) ==
    /\ handlers' = [handlers EXCEPT ![n].disposed = TRUE]
    /\ last' = HandlerCall("disposer", n)
    /\ UNCHANGED <<fetchCache, insts, promises, page, cacheList, arrList, params,
                   thunkCalls, firstRef>>
    /\ UNCHANGED toolVars

Completion ==
    \/ \E k \in 1 .. Len(promises), r \in Results : Resolve(k, r)
    \/ \E k \in 1 .. Len(promises), e \in Errors \cup {"TypeError"} : Reject(k, e)
    \/ \E k \in 1 .. Len(promises) : Settle(k)

\* callers that fetch, re-enter, reset and clear
Next ==
    \/ \E t \in Thunks, o \in CallOptions : MobxSaiFetch(t, o)
    \/ \E h \in Handles, t \in Thunks, w \in FetchKinds : Fetch(h, t, w[1], w[2])
    \/ \E h \in Handles : Reset(h)
    \/ \E ids \in {{id} : id \in Ids} : ClearMobxSaiFetchCache(ids)
    \/ Completion

Spec == Init /\ [][Next]_vars

\* callers that keep a cache of the last window
NextSnapshot ==
    \/ \E t \in Thunks, o \in SnapshotOptions : MobxSaiFetch(t, o)
    \/ \E ids \in {{id} : id \in Ids} : ClearMobxSaiFetchCache(ids)
    \/ Completion

SpecSnapshot == Init /\ [][NextSnapshot]_vars

\* callers that do not refetch what they have and page by hand
NextGuards ==
    \/ \E o \in GuardOptions : MobxSaiFetch("async", o)
    \/ \E h \in Handles, t \in Thunks, w \in FetchKinds : Fetch(h, t, w[1], w[2])
    \/ \E h \in Handles : Reset(h)
    \/ Completion

SpecGuards == Init /\ [][NextGuards]_vars

\* callers that wait for the outcome of a fetch with a one-shot handler
NextHandler ==
    \/ \E id \in Ids : MobxSaiFetch("async", [id |-> id])
    \/ \E h \in Handles : Reset(h)
    \/ \E h \in Handles, c \in HandlerKinds : MobxSaiHandler(h, c[1], c[2], c[3])
    \/ \E n \in DOMAIN handlers : Disposer(n)
    \/ Completion

SpecHandler == Init /\ [][NextHandler]_vars

\* callers that fetch again and again and wait for an outcome with handlers
\* whose callbacks return
NextStale ==
    \/ \E id \in Ids : MobxSaiFetchWithin("async", [id |-> id], MaxCalls + 1)
    \/ \E h \in Handles : MobxSaiHandler(h, "returns", "returns", "none")
    \/ Completion

SpecStale == Init /\ [][NextStale]_vars

\* callers that fetch, refetch and reset, where every promise settles and the
\* callbacks queued by a settled promise run
NextLive ==
    \/ \E o \in LiveCallOptions : MobxSaiFetch("async", o)
    \/ \E h \in Handles : Fetch(h, "async", "null", "null")
    \/ \E h \in Handles : Reset(h)
    \/ Completion

SpecLive == Init /\ [][NextLive]_vars /\ WF_vars(Completion)

\* callers that page a list by scrolling
NextScroll ==
    \/ \E o \in ScrollCallOptions : MobxSaiFetch("async", o)
    \/ \E h \in Handles, t \in Thunks, w \in FetchKinds : Fetch(h, t, w[1], w[2])
    \/ \E h \in Handles, ev \in ScrollEvents : HandleScrollUpdate(h, ev)
    \/ Completion

SpecScroll == Init /\ [][NextScroll]_vars

\* callers whose scroll events cross the top and the bottom threshold at once
NextBoth ==
    \/ \E o \in BothCallOptions : MobxSaiFetch("async", o)
    \/ \E h \in Handles, ev \in BothEvents : HandleScrollUpdate(h, ev)
    \/ Completion

SpecBoth == Init /\ [][NextBoth]_vars

\* callers that merge pages into a list, or link a page counter
NextMerge ==
    \/ \E o \in MergeCallOptions : MobxSaiFetch("async", o)
    \/ Completion

SpecMerge == Init /\ [][NextMerge]_vars

\* callers that page a list by scrolling, where the last item of a page may
\* carry no id, and later ask for the result without storing it
NextWindow ==
    \/ \E o \in WindowCallOptions : MobxSaiFetch("async", o)
    \/ \E h \in Handles, w \in FetchKinds : Fetch(h, "async", w[1], w[2])
    \/ \E h \in Handles, ev \in ScrollEvents : HandleScrollUpdate(h, ev)
    \/ \E k \in 1 .. Len(promises), r \in WindowResults : Resolve(k, r)
    \/ \E k \in 1 .. Len(promises), e \in Errors \cup {"TypeError"} : Reject(k, e)
    \/ \E k \in 1 .. Len(promises) : Settle(k)

SpecWindow == Init /\ [][NextWindow]_vars

\* callers that page a list by scrolling and call mobxSaiFetch again on the
\* same id with other options
NextReentry ==
    \/ \E o \in WindowCallOptions : MobxSaiFetchWithin("async", o, MaxScroll)
    \/ \E h \in Handles, ev \in ScrollEvents : HandleScrollUpdate(h, ev)
    \/ Completion

SpecReentry == Init /\ [][NextReentry]_vars

\* the page of two items, the first without an id, that the thunk of a paged
\* list resolves to
PagedResults == { Obj([items |-> Lst(<<0, 1>>)]) }

\* callers that page a list of two items a page by scrolling up and down,
\* every fetch succeeding
NextPaged ==
    \/ \E o \in PagedCallOptions : MobxSaiFetchWithin("async", o, 1)
    \/ \E h \in Handles, ev \in ScrollEvents : HandleScrollUpdateWithin(h, ev, MaxPages)
    \/ \E k \in 1 .. Len(promises), r \in PagedResults : Resolve(k, r)
    \/ \E k \in 1 .. Len(promises) : Settle(k)

SpecPaged == Init /\ [][NextPaged]_vars

\* a caller that pages one list, from its top or from its bottom
NextOrigin ==
    \/ insts = <<>> /\ \E o \in OriginCallOptions : MobxSaiFetchWithin("async", o, 1)
    \/ \E h \in Handles, ev \in ScrollEvents :
          HandleScrollUpdateWithin(h, ev, MaxScroll + 1)
    \/ \E k \in 1 .. Len(promises), r \in PagedResults : Resolve(k, r)
    \/ \E k \in 1 .. Len(promises), e \in Errors : Reject(k, e)
    \/ \E k \in 1 .. Len(promises) : Settle(k)

SpecOrigin == Init /\ [][NextOrigin]_vars

\* callers that debounce, flush and cancel callbacks
NextDebounce ==
    \/ \E key \in Keys, kind \in CallbackKinds, groupKey \in Groups :
          DebouncedAction(key, kind, groupKey)
    \/ \E t \in 1 .. Len(callbacks) : Timeout(t)
    \/ \E key \in Keys, groupKey \in Groups : FlushDebouncedActions(key, groupKey)
    \/ \E key \in Keys, groupKey \in Groups : CancelDebouncedActions(key, groupKey)
    \/ \E groupKey \in Groups : CancelDebouncedActionsByGroup(groupKey)
    \/ CancelAllDebouncedActions

SpecDebounce == Init /\ [][NextDebounce]_vars

\* callers whose callbacks may debounce a further callback for their own key;
\* a timeout that is set and not cleared runs
NestedKinds == { "returns", "registers" }

\* the delay of some timeout has elapsed
Timeouts == \E t \in 1 .. Len(callbacks) : Timeout(t)

NextNested ==
    \/ \E key \in Keys, kind \in NestedKinds, groupKey \in Groups :
          DebouncedAction(key, kind, groupKey)
    \/ Timeouts
    \/ \E key \in Keys, groupKey \in Groups : FlushDebouncedActions(key, groupKey)
    \/ \E key \in Keys, groupKey \in Groups : CancelDebouncedActions(key, groupKey)

SpecNested == Init /\ [][NextNested]_vars /\ WF_vars(Timeouts)

\* callers that extend a schema
NextSchema ==
    \/ \E newValidators \in NewValidators, override \in BOOLEAN :
         Extend(newValidators, override)
    \/ \E values \in Values : Validate(values)

SpecSchema == Init /\ [][NextSchema]_vars

\* callers that update the items of a collection
NextUpdater ==
    \E id \in ItemIds, key \in Paths, updater \in Updaters : UpdateState(id, key, updater)

SpecUpdater == Init /\ [][NextUpdater]_vars

-----------------------------------------------------------------------------
(* What the properties below speak of *)

\* the id a call of mobxSaiFetch was made with ("" when none)
IdOf(options) == OptionOr(options, "id", "")

\* the step is a call of mobxSaiFetch that found its id cached
Reentry == last'.op = "mobxSaiFetch" /\ IdOf(last'.options) # ""
           /\ firstRef[IdOf(last'.options)] # NoRef

\* the instance a re-entry works on
Cached(options) == fetchCache[IdOf(options)]

\* the conditions under which the cached-snapshot step serves the cache: the
\* call is not declined, gives cacheSystem.setCache and cacheSystem.limit, the
\* instance has no data and the caller's cache holds at least limit items
SnapshotFires(i, options, cache) ==
    /\ ~(~OptionOr(options, "fetchIfPending", FALSE) /\ i.isPending)
    /\ "cacheSystem" \in DOMAIN options
    /\ "setCache" \in DOMAIN options.cacheSystem
    /\ "limit" \in DOMAIN options.cacheSystem
    /\ options.cacheSystem.limit > 0
    /\ ~Truthy(i.data)
    /\ Len(cache.v) >= options.cacheSystem.limit

\* the primary thunk invocations of instance h that have not settled
Outstanding(h) ==
    { k \in 1 .. Len(promises) :
        /\ promises[k].h = h
        /\ IsPrimary(promises[k].fromWhere, promises[k].fetchWhat)
        /\ promises[k].phase = "pending" }

\* the step runs a callback of invocation k: then or catch, or finally
Stepped(k) == Len(promises') = Len(promises) /\ promises'[k] # promises[k]
Settled(k) == promises' = RemoveAt(promises, k)

IsScroll(fromWhere, fetchWhat) ==
    fromWhere = "fromScroll" /\ fetchWhat \in {"top", "bot"}

PrimaryAxis(i) == <<i.status, i.isPending, i.isFulfilled, i.isRejected, i.error>>
ScrollAxes(i) == <<i.topStatus, i.botStatus, i.topError, i.botError>>

\* status, data, error, topStatus, botStatus, the counters and gettedToTop
Observed(i) ==
    <<i.status, i.data, i.error, i.topStatus, i.botStatus, i.fetchedCount,
      i.addedToStartCount, i.addedToEndCount, i.gettedToTop>>

\* the precedence new call > cached instance > default, per option group
Precedence(cur, options) ==
    [ cacheSystem |-> Sub(options, "cacheSystem") @@ cur.cacheSystem
                        @@ defaultOptions.cacheSystem,
      dataScope |-> Sub(options, "dataScope") @@ cur.dataScope
                        @@ defaultOptions.dataScope,
      fetchAddTo |-> Sub(options, "fetchAddTo") @@ cur.fetchAddTo
                        @@ defaultOptions.fetchAddTo ]
    @@ options @@ cur @@ defaultOptions

-----------------------------------------------------------------------------
(* C1 *)

\* C1 as stated: with no clearMobxSaiFetchCache in between, every call of
\* mobxSaiFetch with the same non-empty id returns the very instance the first
\* call with that id returned, never a copy and never a replacement.
C1_SameInstance ==
    (last.op = "mobxSaiFetch" /\ IdOf(last.options) # "" /\ last.ret.kind # "throw")
        => last.ret = firstRef[IdOf(last.options)]

\* C1 amended: with no clearMobxSaiFetchCache in between, every call of
\* mobxSaiFetch with the same non-empty id that returns a value returns the
\* very instance the first call with that id returned, except a call on which
\* the cached-snapshot step fires, which returns a transient copy of that
\* instance; the cached instance itself is never replaced.
C1_SameInstanceOrSnapshot ==
    [][ LET id == IdOf(last'.options) IN
        /\ (Reentry /\ last'.ret.kind # "throw") =>
              IF SnapshotFires(insts[Cached(last'.options)], last'.options, cacheList)
              THEN last'.ret.kind = "copy" /\ last'.ret.h = firstRef[id].h
              ELSE last'.ret = firstRef[id]
        /\ Reentry => /\ firstRef'[id] = firstRef[id]
                      /\ fetchCache'[id] = firstRef[id].h
                      /\ Len(insts') = Len(insts) ]_vars

\* C1 witness: a second call with a cached id has invoked the thunk again and
\* returned the instance of the first call
C1_Witness ==
    /\ last.op = "mobxSaiFetch" /\ IdOf(last.options) # ""
    /\ last.fetch = "invoked" /\ thunkCalls >= 2
    /\ last.ret = firstRef[IdOf(last.options)]
    /\ insts[last.ret.h].fetchedCount >= 1

-----------------------------------------------------------------------------
(* C2 *)

\* C2: with fetchIfPending = false, a primary call of fetch, direct or through
\* mobxSaiFetch on a cached id, made while status is 'pending' does not change
\* data, error or status and does not invoke the thunk.
C2_PendingDeclines ==
    [][ LET h == last'.h IN
        ( /\ \/ last'.op = "fetch" /\ IsPrimary(last'.fromWhere, last'.fetchWhat)
             \/ Reentry
          /\ ~insts'[h].options.fetchIfPending
          /\ insts[h].status = "pending" )
        => /\ thunkCalls' = thunkCalls
           /\ insts'[h].data = insts[h].data
           /\ insts'[h].error = insts[h].error
           /\ insts'[h].status = insts[h].status ]_vars

-----------------------------------------------------------------------------
(* C3 *)

\* C3: with fetchIfPending = false, no primary thunk invocation is started on
\* an instance while another one of that instance is outstanding, for either
\* value of needPending and across reset().
C3_OnePrimaryOutstanding ==
    [][ LET h == last'.h IN
        ( /\ last'.op \in {"fetch", "mobxSaiFetch"}
          /\ IsPrimary(last'.fromWhere, last'.fetchWhat)
          /\ last'.fetch = "invoked"
          /\ h <= Len(insts)
          /\ ~insts'[h].options.fetchIfPending )
        => Outstanding(h) = {} ]_vars

-----------------------------------------------------------------------------
(* C4 *)

\* C4: a call of fetch declined by the has-data guard or by the no-more-data
\* guard does not invoke the thunk and leaves status, data, error, topStatus,
\* botStatus, the counters and gettedToTop unchanged; and the has-data guard
\* never declines a scroll-triggered call: with data present and
\* fetchIfHaveData = false, a scroll call that neither the pending guard nor
\* the no-more-data guard stops invokes the thunk.
C4_DeclinedChangesNothing ==
    [][ LET h == last'.h
            i == insts[h]
            noMore == \/ last'.fetchWhat = "bot" /\ ~i.isHaveMoreBot
                      \/ last'.fetchWhat = "top" /\ ~i.isHaveMoreTop
            hasData == Truthy(i.data) /\ ~i.options.fetchIfHaveData
        IN  last'.op = "fetch" =>
              /\ ((hasData /\ IsPrimary(last'.fromWhere, last'.fetchWhat)) \/ noMore)
                    => /\ last'.fetch = "declined"
                       /\ thunkCalls' = thunkCalls
                       /\ promises' = promises
                       /\ Observed(insts'[h]) = Observed(i)
              /\ ( /\ hasData /\ ~noMore
                   /\ last'.fromWhere = "fromScroll"
                   /\ ~(~i.options.fetchIfPending /\ i.isPending) )
                    => /\ last'.fetch # "declined"
                       /\ thunkCalls' = thunkCalls + 1 ]_vars

\* C4 witness: the last call was a primary fetch on an instance that has data
\* and fetchIfHaveData = false, and it was declined
C4_Witness ==
    /\ last.op = "fetch" /\ last.fetch = "declined"
    /\ IsPrimary(last.fromWhere, last.fetchWhat)
    /\ Truthy(insts[last.h].data)
    /\ ~insts[last.h].options.fetchIfHaveData
    /\ ~insts[last.h].isPending

-----------------------------------------------------------------------------
(* C5 *)

\* C5: a failing primary fetch never propagates an exception to the caller of
\* fetch / mobxSaiFetch, and a rejected promise leaves the instance with
\* status = 'rejected', isRejected = true and error set to the failure.
C5_FailureNotPropagated ==
    [][ /\ (last'.op \in {"fetch", "mobxSaiFetch"}
              /\ IsPrimary(last'.fromWhere, last'.fetchWhat))
           => last'.ret.kind # "throw"
        /\ \A k \in 1 .. Len(promises) :
             ( /\ Stepped(k)
               /\ IsPrimary(promises[k].fromWhere, promises[k].fetchWhat)
               /\ promises'[k].phase = "finally"
               /\ promises'[k].err # "null" )
             => LET i == insts'[promises[k].h] IN
                /\ i.status = "rejected"
                /\ i.isRejected
                /\ i.error = promises'[k].err ]_vars

-----------------------------------------------------------------------------
(* C6 *)

\* C6: in every reachable state, an instance whose status is 'pending' has a
\* primary thunk invocation outstanding.
C6_PendingMeansOutstanding ==
    \A h \in Handles : insts[h].status = "pending" => Outstanding(h) # {}

-----------------------------------------------------------------------------
(* C7 *)

\* C7: a scroll-triggered fetch, whether it is declined, succeeds or fails,
\* never changes status, isPending, isFulfilled, isRejected or error, in the
\* call (handleScrollUpdate's included) and in each of its callbacks; and a
\* primary fetch never changes topStatus, botStatus, topError or botError.
C7_AxesIndependent ==
    [][ /\ \A k \in 1 .. Len(promises) :
             (Stepped(k) \/ Settled(k)) =>
               LET p == promises[k] IN
               /\ IsScroll(p.fromWhere, p.fetchWhat)
                    => PrimaryAxis(insts'[p.h]) = PrimaryAxis(insts[p.h])
               /\ IsPrimary(p.fromWhere, p.fetchWhat)
                    => ScrollAxes(insts'[p.h]) = ScrollAxes(insts[p.h])
        /\ ( \/ last'.op = "fetch" /\ IsScroll(last'.fromWhere, last'.fetchWhat)
             \/ last'.op = "handleScrollUpdate" )
           => PrimaryAxis(insts'[last'.h]) = PrimaryAxis(insts[last'.h])
        /\ ( \/ last'.op = "fetch" /\ IsPrimary(last'.fromWhere, last'.fetchWhat)
             \/ Reentry )
           => ScrollAxes(insts'[last'.h]) = ScrollAxes(insts[last'.h]) ]_vars

\* C7 witness: a scroll-triggered bottom fetch has failed on an instance whose
\* primary fetch succeeded: the failure is on the bottom axis alone
C7_Witness ==
    \E h \in Handles :
        /\ insts[h].status = "fulfilled" /\ insts[h].error = "null"
        /\ insts[h].botStatus = "rejected" /\ insts[h].botError = "E1"

-----------------------------------------------------------------------------
(* C8 *)

\* C8: an instance is created with status 'fulfilled' when needPending = false,
\* and while needPending = false stays in its options no step makes its status
\* 'pending' or its isPending true.
C8_NeverPending ==
    [][ \A h \in 1 .. Len(insts') :
          ~insts'[h].options.needPending =>
            IF h > Len(insts)
            THEN insts'[h].status = "fulfilled" /\ ~insts'[h].isPending
            ELSE (~insts[h].options.needPending
                    /\ insts[h].status # "pending" /\ ~insts[h].isPending)
                 => (insts'[h].status # "pending" /\ ~insts'[h].isPending) ]_vars

-----------------------------------------------------------------------------
(* C9 *)

\* C9: after mobxSaiFetch on a cached id, every option of the instance, and
\* every key of cacheSystem, dataScope and fetchAddTo, has the value of the new
\* call if the new call gives one, else the value the cached instance had.
C9_MergePrecedence ==
    [][ Reentry =>
          insts'[last'.h].options
            = Precedence(insts[last'.h].options, last'.options) ]_vars

-----------------------------------------------------------------------------
(* C10 *)

\* C10: when the cached-snapshot step fires, the call invokes no thunk and
\* changes no field of the cached instance, its options included, and returns
\* an object whose data[fetchAddTo.path] is the caller's cache list.
C10_SnapshotChangesNothing ==
    [][ (Reentry /\ SnapshotFires(insts[last'.h], last'.options, cacheList)) =>
          /\ thunkCalls' = thunkCalls
          /\ promises' = promises
          /\ insts'[last'.h] = insts[last'.h]
          /\ last'.ret.kind = "copy"
          /\ Prop(last'.ret.data, insts'[last'.h].options.fetchAddTo.path)
               = cacheList ]_vars

-----------------------------------------------------------------------------
(* The .then callback of invocation k has run in this step, on result *)

Fulfilled(k) ==
    /\ Stepped(k) /\ promises[k].phase = "pending"
    /\ last'.op = "then" /\ last'.h = promises[k].h

\* both data[path] and result[path] are lists when the callback of k starts
BothLists(k) ==
    LET p == promises[k] IN
    /\ p.fetchAddTo.path # ""
    /\ IsArray(Prop(insts[p.h].data, p.fetchAddTo.path))
    /\ IsArray(Prop(last'.ret.data, p.fetchAddTo.path))

\* data[path] before, result[path], and data[path] after the callback of k
DataBefore(k) == Prop(insts[promises[k].h].data, promises[k].fetchAddTo.path)
ResultOf(k) == Prop(last'.ret.data, promises[k].fetchAddTo.path)
DataAfter(k) == Prop(insts'[promises[k].h].data, promises[k].fetchAddTo.path)

-----------------------------------------------------------------------------
(* C11 *)

\* C11: a successful fetch with addTo = 'start' and isSetReversedArr false,
\* where data[path] and result[path] are both lists (and isSetData is true),
\* leaves data[path] = result[path] followed by the previous data[path], each
\* in its original order, with or without a setArrCallback.
C11_StartKeepsOrder ==
    [][ \A k \in 1 .. Len(promises) :
          ( /\ Fulfilled(k) /\ BothLists(k)
            /\ promises[k].fetchAddTo.addTo = "start"
            /\ ~promises[k].fetchAddTo.isSetReversedArr
            /\ insts[promises[k].h].options.isSetData )
          => DataAfter(k) = Lst(ResultOf(k).v \o DataBefore(k).v) ]_vars

-----------------------------------------------------------------------------
(* C12 *)

\* C12: a successful fetch with addTo = 'reset', where data[path] and
\* result[path] are both lists (and isSetData is true), leaves at data[path]
\* exactly the list result[path], reversed if isSetReversedArr.
C12_ResetReplacesList ==
    [][ \A k \in 1 .. Len(promises) :
          ( /\ Fulfilled(k) /\ BothLists(k)
            /\ promises[k].fetchAddTo.addTo = "reset"
            /\ insts[promises[k].h].options.isSetData )
          => DataAfter(k) = IF promises[k].fetchAddTo.isSetReversedArr
                            THEN Lst(Reverse(ResultOf(k).v))
                            ELSE ResultOf(k) ]_vars

-----------------------------------------------------------------------------
(* C16 *)

\* C16: a successful fetch on an instance configured with page and
\* pageSetterName and isFetchUp = false adds exactly 1 to the linked page,
\* whatever isSetData, addTo and the merge branch; a failed or a declined
\* fetch leaves page unchanged.
C16_PageStepsByOne ==
    [][ /\ \A k \in 1 .. Len(promises) :
             LET o == insts[promises[k].h].options IN
             /\ ( /\ Fulfilled(k) /\ last'.fetch # "throw"
                  /\ o.page # "null" /\ o.pageSetterName # "" /\ ~o.isFetchUp )
                => page' = page + 1
             /\ (Stepped(k) /\ promises'[k].err # "null") => page' = page
        /\ (last'.op \in {"fetch", "mobxSaiFetch"} /\ last'.fetch = "declined")
             => page' = page ]_vars

-----------------------------------------------------------------------------
(* C14 *)

\* C14: with startFrom = 'top', cacheSystem.limit = L and howMuchGettedToTop
\* = h, the bottom-growth merge performed when gettedToTop has reached -h
\* removes exactly the L first items from data[path], stores exactly those
\* removed items in scrollCachedData, and sets isHaveMoreTop to true.
C14_EvictedItemsAreCached ==
    [][ \A k \in 1 .. Len(promises) :
          LET p == promises[k]
              L == insts[p.h].options.cacheSystem.limit
          IN  ( /\ Fulfilled(k) /\ BothLists(k)
                /\ p.fetchWhat = "bot" /\ p.startFrom = "top"
                /\ p.gettedToTop = -p.howMuchGettedToTop )
              => /\ DataAfter(k) = Lst(SpliceFirst(DataBefore(k).v, L) \o ResultOf(k).v)
                 /\ insts'[p.h].scrollCachedData = SliceFirst(DataBefore(k).v, L)
                 /\ insts'[p.h].isHaveMoreTop ]_vars

-----------------------------------------------------------------------------
(* C13 *)

\* C13: with isSetData = false, a successful fetch leaves the instance's data
\* exactly as it was before (no item added, removed or reordered at any
\* path), in every merge branch and for every value of gettedToTop.
C13_NoCommitKeepsData ==
    [][ \A k \in 1 .. Len(promises) :
          (Fulfilled(k) /\ ~insts[promises[k].h].options.isSetData)
          => insts'[promises[k].h].data = insts[promises[k].h].data ]_vars

-----------------------------------------------------------------------------
(* C15 *)

\* the result of the .then callback of this step holds the configured
\* isHaveMoreResKey
HasMoreKey(k) ==
    /\ promises[k].isHaveMoreResKey # ""
    /\ IsObject(last'.ret.data)
    /\ HasKey(last'.ret.data, promises[k].isHaveMoreResKey)

\* C15: after a successful fetch whose result holds the configured
\* isHaveMoreResKey with value v, the completion handler leaves isHaveMoreTop
\* = v for a top fetch and isHaveMoreBot = v for a bottom or a primary fetch.
C15_HaveMoreFollowsResult ==
    [][ \A k \in 1 .. Len(promises) :
          LET p == promises[k]
              v == Truthy(Prop(last'.ret.data, p.isHaveMoreResKey))
          IN  (Fulfilled(k) /\ last'.fetch # "throw" /\ HasMoreKey(k))
              => IF p.fetchWhat = "top" /\ ~IsPrimary(p.fromWhere, p.fetchWhat)
                 THEN insts'[p.h].isHaveMoreTop = v
                 ELSE insts'[p.h].isHaveMoreBot = v ]_vars

-----------------------------------------------------------------------------
(* The debouncer's callbacks *)

Numbers == 1 .. Len(callbacks)

\* callback n is pending: its timeout is set and has not run
Pending(n) == n \in timers

\* the step is the run of the timeout of callback n
TimeoutOf(n) == last'.op = "timeout" /\ n \in timers /\ n \notin timers'

\* the composite key a call of the debouncer was made with
KeyOfCall == ActionKey(last'.groupKey, last'.key)

-----------------------------------------------------------------------------
(* C17 *)

\* C17: when debouncedAction is called twice with the same key and groupKey,
\* with callbacks A then B, the second call before the first one's delay has
\* elapsed, A is never executed, and the timeout of the second call executes
\* B, once, B not having been executed before.
C17_LastRegistrationWins ==
    [][ \A b \in Numbers :
          LET a == callbacks[b].replaces IN
          a # 0 =>
            /\ callbacks'[a].runs = 0
            /\ TimeoutOf(b) => /\ callbacks[b].runs = 0
                               /\ callbacks'[b].runs = 1 ]_vars

\* B has replaced A and the timeout of B has just executed B
C17_Witness ==
    \E b \in Numbers :
      /\ callbacks[b].replaces # 0
      /\ last = DebouncerCall("timeout", callbacks[b].groupKey, callbacks[b].key,
                             callbacks[b].kind = "throws")
      /\ callbacks[b].runs = 1
      /\ callbacks[callbacks[b].replaces].runs = 0

-----------------------------------------------------------------------------
(* C18 *)

\* C18: cancelDebouncedActionsByGroup(g) cancels every pending action
\* registered with groupKey = g and no other: an action pending under a group
\* name other than g stays pending, whatever the two names are.
C18_OnlyTheGroup ==
    [][ last'.op = "cancelDebouncedActionsByGroup" =>
          \A n \in Numbers :
            Pending(n) =>
              IF callbacks[n].groupKey = last'.groupKey
              THEN ~Pending(n)' /\ callbacks'[n].ended = "cancelled"
              ELSE /\ Pending(n)'
                   /\ callbacks'[n] = callbacks[n]
                   /\ n \in actionRegistry'[ActionKey(callbacks[n].groupKey,
                                                      callbacks[n].key)] ]_vars

-----------------------------------------------------------------------------
(* C19 *)

\* flushDebouncedActions runs the pending callback of its composite key once
\* and leaves no timeout of it
FlushRunsOnce ==
    last'.op = "flushDebouncedActions" =>
      \A n \in actionRegistry[KeyOfCall] :
        callbacks'[n].runs = callbacks[n].runs + 1 /\ ~Pending(n)'

\* a cancelled callback is not executed
CancelledNeverRuns ==
    \A n \in Numbers :
      callbacks[n].ended = "cancelled" => callbacks'[n].runs = callbacks[n].runs

\* flushing or cancelling a key with nothing pending changes nothing
NothingPendingNoChange ==
    ( /\ last'.op \in {"flushDebouncedActions", "cancelDebouncedActions"}
      /\ actionRegistry[KeyOfCall] = NoActions
      /\ debouncedActions[KeyOfCall] = NoEntry )
    => UNCHANGED <<debouncedActions, actionRegistry, timers, callbacks>>

\* C19: every callback registered with debouncedAction is executed at most
\* once: flushDebouncedActions runs the pending callback of its composite key
\* exactly once and its timeout never runs it again; a cancelled callback is
\* never executed; flushing or cancelling a key with nothing pending changes
\* nothing.
C19_AtMostOnce ==
    [][ /\ \A n \in Numbers : callbacks'[n].runs <= 1
        /\ FlushRunsOnce
        /\ CancelledNeverRuns
        /\ NothingPendingNoChange ]_vars

-----------------------------------------------------------------------------
(* C20 *)

\* C20: extend(newValidators, false) leaves a field named in newValidators
\* with its old validators followed by the new ones, extend(newValidators,
\* true) with the new ones only; a field absent from the schema gets exactly
\* the new list, and a field not named keeps its validators.
C20_ExtendAppendsOrOverrides ==
    [][ last'.op = "extend" =>
          LET new == last'.newValidators IN
          /\ DOMAIN validators'.v = DOMAIN validators.v \cup DOMAIN new
          /\ \A field \in DOMAIN validators'.v :
               validators'.v[field] =
                 IF field \notin DOMAIN new THEN validators.v[field]
                 ELSE IF last'.override \/ field \notin DOMAIN validators.v
                 THEN Lst(new[field])
                 ELSE Lst(validators.v[field].v \o new[field]) ]_vars

\* extend(newValidators, false) has just appended v2 to the [v1] of a field
C20_Witness ==
    /\ last.op = "extend" /\ ~last.override
    /\ \E field \in DOMAIN last.newValidators :
         /\ last.newValidators[field] = <<"v2">>
         /\ validators.v[field] = Lst(<<"v1", "v2">>)

-----------------------------------------------------------------------------
(* C21 *)

\* C21: validate(values) evaluates each field's validators in registration
\* order and stops at the first one that does not return true: errors[field +
\* 'Err'] holds the message of the first failing validator only, no later
\* validator of the field is invoked, and success is true exactly when no
\* field has a failing validator, which is when errors is empty.
C21_FirstFailureOnly ==
    [][ last'.op = "validate" =>
          LET values == last'.values
              fails(field) == Failing(validators.v[field].v, values)
              first(field) == CHOOSE i \in fails(field) : \A j \in fails(field) : i <= j
          IN  /\ \A field \in DOMAIN validators.v :
                   IF fails(field) = {}
                   THEN /\ field \o "Err" \notin DOMAIN last'.errors
                        /\ last'.invoked[field] = Len(validators.v[field].v)
                   ELSE /\ field \o "Err" \in DOMAIN last'.errors
                        /\ last'.errors[field \o "Err"] =
                             ErrorMessage(field, validators.v[field].v[first(field)], values)
                        /\ last'.invoked[field] = first(field)
              /\ last'.success = (\A field \in DOMAIN validators.v : fails(field) = {})
              /\ last'.success = (DOMAIN last'.errors = {}) ]_vars

\* validate has just met a field whose two validators both fail, and reported
\* the first one's message
C21_Witness ==
    /\ last.op = "validate"
    /\ \E field \in DOMAIN validators.v :
         /\ validators.v[field] = Lst(<<"v1", "v2">>)
         /\ last.values = [v \in ValidatorNames |-> "message"]
         /\ last.errors[field \o "Err"] = "v1"
         /\ last.invoked[field] = 1

-----------------------------------------------------------------------------
(* Reading a path *)

\* the steps a path denotes: a name per dotted segment, followed by an index
\* where the segment is bracketed ('a.b[2]' is a, b, 2)
RECURSIVE StepsOf(_)
StepsOf(segments) ==
    IF segments = <<>> THEN <<>>
    ELSE LET seg == Head(segments)
             parts == FilterBoolean(Split(seg, {"[", "]"}))
         IN  (IF Includes(seg, "[")
              THEN << [name |-> parts[1], index |-> -1],
                      [name |-> <<>>, index |-> ToNumber(parts[2])] >>
              ELSE << [name |-> seg, index |-> -1] >>) \o StepsOf(Tail(segments))

Steps(path) == StepsOf(Split(path, {"."}))

\* the value found by following steps from x (undefined where the way ends)
RECURSIVE Read(_, _)
Read(x, steps) ==
    IF steps = <<>> THEN x
    ELSE Read(IF Head(steps).index = -1 THEN Prop(x, Head(steps).name)
              ELSE At(x, Head(steps).index),
              Tail(steps))

\* the step is a call of the updater; the position of the item it names
Updating == last'.op = "updateState"
Named == Find(collection, last'.id)

\* every item but the named one is as before
OthersKept ==
    /\ Len(collection'.v) = Len(collection.v)
    /\ \A j \in 1 .. Len(collection.v) : j # Named => collection'.v[j] = collection.v[j]

-----------------------------------------------------------------------------
(* C22 *)

\* C22: updating an item at a dotted path sets the terminal field and creates
\* each intermediate segment that was absent as a container holding nothing
\* but the next segment; the other fields of the item and the other items are
\* not modified, and an id that matches no item changes nothing.
C22_DottedPathIsCreated ==
    [][ (Updating /\ ~Includes(last'.key, "[")) =>
          LET steps == Steps(last'.key)
              old == collection.v[Named]
              new == collection'.v[Named]
          IN  IF Named = 0 THEN collection' = collection
              ELSE /\ OthersKept
                   /\ Read(new, steps) = ApplyUpdater(last'.updater, Read(old, steps))
                   /\ \A n \in 1 .. Len(steps) - 1 :
                        Read(old, SubSeq(steps, 1, n)) = Undefined
                        => /\ IsObject(Read(new, SubSeq(steps, 1, n)))
                           /\ DOMAIN Read(new, SubSeq(steps, 1, n)).v = {steps[n + 1].name}
                   /\ DOMAIN new.v = DOMAIN old.v \cup {steps[1].name}
                   /\ \A name \in DOMAIN old.v \ {steps[1].name} : new.v[name] = old.v[name] ]_vars

\* the item of id 1 has just got a.b.c = 5, a holding b and b holding c only
C22_Witness ==
    /\ last = UpdateCall(Num(1), <<"a", ".", "b", ".", "c">>, Num(5))
    /\ collection.v[1] =
         Obj((<<"i", "d">> :> Num(1))
             @@ (<<"a">> :> Obj(<<"b">> :> Obj(<<"c">> :> Num(5)))))

-----------------------------------------------------------------------------
(* C23 *)

\* C23: for a path whose terminal segment is bracketed, the update replaces
\* (or transforms with the updater function) the element at that index of the
\* list stored under the segment's name, the location that reading the path
\* denotes, and creates or writes no field of another name.
C23_BracketedTerminal ==
    [][ (Updating /\ Named # 0 /\ Includes(last'.key, "[")) =>
          LET steps == Steps(last'.key)
              holder == SubSeq(steps, 1, Len(steps) - 2)
              old == collection.v[Named]
              new == collection'.v[Named]
          IN  /\ Read(new, steps) = ApplyUpdater(last'.updater, Read(old, steps))
              /\ DOMAIN Read(new, holder).v
                   \subseteq DOMAIN Read(old, holder).v \cup {steps[Len(steps) - 1].name} ]_vars

-----------------------------------------------------------------------------
(* C24 *)

\* the step changed the data or the error the handler of number n watches
Notified(n) ==
    LET h == handlers[n].h IN
    \/ insts'[h].error # insts[h].error
    \/ last'.op = "then" /\ last'.h = h /\ insts'[h].data = last'.ret.data
    \/ last'.op = "reset" /\ last'.h = h /\ insts[h].data # Null
    \/ \E k \in 1 .. Len(promises) :
         /\ Stepped(k) /\ promises[k].h = h /\ last'.op = "none"
         /\ promises'[k].phase = "finally" /\ insts'[h].error = promises'[k].err

\* C24: a handler registered with mobxSaiHandler invokes at most one of
\* onSuccess / onError, at most once in total: at a change of data or error
\* where error is set it calls onError, or where data is set and passes the
\* guard it calls onSuccess, and then it is disposed; later changes cause no
\* further callback.
C24_OneShot ==
    [][ \A n \in DOMAIN handlers :
          LET a == handlers[n]
              b == handlers'[n]
              i == insts'[a.h]
          IN  /\ Len(b.calls) <= 1
              /\ a.disposed => b = a
              /\ b.calls # a.calls =>
                   /\ Notified(n)
                   /\ b.disposed
                   /\ b.calls = IF i.error # "null" THEN <<"onError">> ELSE <<"onSuccess">>
                   /\ i.error = "null" => Truthy(i.data) /\ a.guard # "rejects" ]_vars

-----------------------------------------------------------------------------
(* C25 *)

\* the scroll-triggered thunk invocations of instance h that have not finished
ScrollOutstanding(h) ==
    { k \in 1 .. Len(promises) :
        promises[k].h = h /\ promises[k].fromWhere = "fromScroll" }

\* C25: once every scroll-triggered fetch of an instance has settled, its
\* options (fetchAddTo.addTo and isSetData) are those in effect before the
\* scroll triggers overrode them, here the options it was constructed with;
\* also when a top and a bottom scroll fetch were in flight together and when
\* the fetch call of a trigger was declined.
C25_OptionsRestored ==
    \A h \in 1 .. Len(insts) :
        ScrollOutstanding(h) = {}
        => \E o \in ScrollCallOptions :
              LET given == NewInstance(o).options IN
              /\ insts[h].options.fetchAddTo.addTo = given.fetchAddTo.addTo
              /\ insts[h].options.isSetData = given.isSetData

-----------------------------------------------------------------------------
(* C26 *)

\* a primary fetch has put instance h into pending and its promise is outstanding
PrimaryPending(h) ==
    /\ h <= Len(insts)
    /\ insts[h].status = "pending" /\ insts[h].isPending
    /\ Outstanding(h) # {}

PrimarySettled(h) ==
    /\ h <= Len(insts)
    /\ insts[h].status \in {"fulfilled", "rejected"} /\ ~insts[h].isPending

\* an instance pending by a primary fetch whose promise settles is eventually
\* fulfilled or rejected
EventuallySettled == \A h \in 1 .. MaxInst : PrimaryPending(h) ~> PrimarySettled(h)

\* the thunk is invoked by the calls of callers only, never by a completion
NoRetry ==
    [][ thunkCalls' # thunkCalls
        => last'.op \in {"mobxSaiFetch", "fetch", "handleScrollUpdate"} ]_vars

\* the step takes instance h out of rejected
LeavesRejected(h) == insts[h].status = "rejected" /\ insts'[h].status # "rejected"

FetchCall(h) == last'.op \in {"mobxSaiFetch", "fetch"} /\ last'.h = h

\* C26 as stated: whenever a primary fetch puts the instance into pending it
\* is eventually fulfilled or rejected with isPending false, provided the
\* promise settles; no retry is performed, and a rejected instance stays
\* rejected until another fetch call is made.
C26_SettlesAndStaysRejected ==
    /\ EventuallySettled
    /\ NoRetry
    /\ [][ \A h \in 1 .. Len(insts) : LeavesRejected(h) => FetchCall(h) ]_vars

\* C26, amended: as above, but a rejected instance stays rejected until a
\* fetch call is made, reset() is called, or the promise of another primary
\* fetch call that was outstanding is fulfilled.
C26_SettlesAndStaysRejectedUntilCall ==
    /\ EventuallySettled
    /\ NoRetry
    /\ [][ \A h \in 1 .. Len(insts) :
             LeavesRejected(h)
             => \/ FetchCall(h)
                \/ last'.op = "reset" /\ last'.h = h
                \/ /\ last'.op = "then" /\ last'.h = h
                   /\ IsPrimary(last'.fromWhere, last'.fetchWhat) ]_vars

\* an instance that a primary fetch made pending is rejected, with nothing of
\* it outstanding
C26_Witness ==
    \E h \in 1 .. Len(insts) :
        /\ insts[h].status = "rejected" /\ ~insts[h].isPending /\ insts[h].isRejected
        /\ Outstanding(h) = {}
        /\ thunkCalls = 1

-----------------------------------------------------------------------------
(* C27 *)

\* the thunk invocations of instance h for the axis fetchWhat whose promise
\* has not settled
AxisOutstanding(h, fetchWhat) ==
    { k \in ScrollOutstanding(h) :
        promises[k].fetchWhat = fetchWhat /\ promises[k].phase = "pending" }

\* C27: whenever handleScrollUpdate sets topStatus (botStatus) to 'pending', a
\* top (bottom) thunk invocation is started by the same call, so that the axis
\* is settled when its promise settles: an axis is never 'pending' with no
\* scroll fetch of that axis outstanding.
C27_PendingAxisHasFetch ==
    \A h \in 1 .. Len(insts) :
        /\ insts[h].topStatus = "pending" => AxisOutstanding(h, "top") # {}
        /\ insts[h].botStatus = "pending" => AxisOutstanding(h, "bot") # {}

-----------------------------------------------------------------------------
(* C28 *)

\* the thunk invocations the step started for the axis fetchWhat
Started(fetchWhat) ==
    { k \in Len(promises) + 1 .. Len(promises') : promises'[k].fetchWhat = fetchWhat }

\* the item at position n of data[fetchAddTo.path] of instance i has an id
\* (n = 0 stands for the last position)
HasId(i, n) ==
    LET list == DataAtPath(i) IN
    /\ IsArray(list) /\ Len(list.v) > 0
    /\ list.v[IF n = 0 THEN Len(list.v) ELSE n] # 0

\* C28: handleScrollUpdate starts a top scroll fetch only if the first item
\* of data[fetchAddTo.path] has an id, and a bottom scroll fetch only if the
\* last item has an id; when that id is missing the trigger is aborted: no
\* thunk is invoked and setParams is not called.
C28_TriggerNeedsId ==
    [][ last'.op = "handleScrollUpdate" =>
          LET i == insts[last'.h]
              ds == i.options.dataScope
              progress == insts'[last'.h].scrollProgress
          IN  /\ Started("top") # {} => HasId(i, 1)
              /\ Started("bot") # {} => HasId(i, 0)
              /\ (progress <= ds.topPercentage /\ ~HasId(i, 1))
                 \/ (progress >= ds.botPercentage /\ ~HasId(i, 0))
                 => thunkCalls' = thunkCalls /\ params' = params ]_vars

-----------------------------------------------------------------------------
(* C29 *)

\* the list before the callback of k is still there afterwards, in one piece
Survives(k) ==
    LET before == DataBefore(k).v
        after == DataAfter(k).v
    IN  \E n \in 0 .. Len(after) - Len(before) :
            SubSeq(after, n + 1, n + Len(before)) = before

\* C29: in a run of scroll-triggered fetches with startFrom = 'top', a merge
\* removes items from the live list data[path] only when it is the merge at
\* which gettedToTop has reached -howMuchGettedToTop; merges performed while
\* gettedToTop is beyond the threshold remove nothing.
C29_EvictsAtBoundaryOnly ==
    [][ \A k \in 1 .. Len(promises) :
          LET p == promises[k] IN
          ( /\ Fulfilled(k) /\ BothLists(k)
            /\ p.fromWhere = "fromScroll" /\ p.startFrom = "top"
            /\ IsArray(DataAfter(k))
            /\ ~Survives(k) )
          => p.gettedToTop = -p.howMuchGettedToTop ]_vars

-----------------------------------------------------------------------------
(* C30 *)

\* C30: gettedToTop changes by +1 only when handleScrollUpdate starts a top
\* scroll fetch and by -1 only when it starts a bottom scroll fetch, so that
\* it equals the top fetches started minus the bottom fetches started since
\* construction or the last reset(); primary fetches, completions and aborted
\* or declined scroll triggers never change it.
C30_CountsStartedFetches ==
    [][ \A h \in 1 .. Len(insts) :
          LET change == insts'[h].gettedToTop - insts[h].gettedToTop IN
          IF last'.op = "reset" /\ last'.h = h
          THEN insts'[h].gettedToTop = 0
          ELSE IF last'.op = "handleScrollUpdate" /\ last'.h = h
          THEN change = Cardinality(Started("top")) - Cardinality(Started("bot"))
          ELSE change = 0 ]_vars

-----------------------------------------------------------------------------
(* C31 *)

\* the conditions of the bottom trigger hold for instance i at this progress,
\* its last item has an id and fetch admits a bottom fetch
BottomDue(i, progress) ==
    LET ds == i.options.dataScope IN
    /\ ds.botPercentage # NoPct /\ progress >= ds.botPercentage
    /\ ~i.isBotPending /\ i.isHaveMoreBot
    /\ Truthy(i.data) /\ i.options.fetchAddTo.path # "" /\ Truthy(DataAtPath(i))
    /\ ds.setParams # "null"
    /\ ~(ds.startFrom = "bot" /\ i.gettedToTop <= ds.howMuchGettedToTop)
    /\ HasId(i, 0)
    /\ i.promiseOrFunction # "null"
    /\ ~(i.isPending /\ ~i.options.fetchIfPending)

\* C31: within one handleScrollUpdate call the bottom trigger is decided
\* independently of the top trigger: whenever the bottom conditions hold, a
\* bottom fetch is started, whether the top trigger of the same call fired,
\* was suppressed by its displacement bound or was aborted by its guard.
C31_BottomIndependent ==
    [][ (last'.op = "handleScrollUpdate"
         /\ BottomDue(insts[last'.h], insts'[last'.h].scrollProgress))
        => Started("bot") # {} ]_vars

-----------------------------------------------------------------------------
(* C32 *)

\* C32: in every reachable state the boolean flags agree with the status
\* fields: isPending = (status = 'pending'), isFulfilled = (status =
\* 'fulfilled'), isRejected = (status = 'rejected'), and likewise the top and
\* bottom flags with topStatus and botStatus, for every value of needPending
\* and after reset().
C32_FlagsAgreeWithStatus ==
    \A h \in 1 .. Len(insts) :
        LET i == insts[h] IN
        /\ i.isPending = (i.status = "pending")
        /\ i.isFulfilled = (i.status = "fulfilled")
        /\ i.isRejected = (i.status = "rejected")
        /\ i.isTopPending = (i.topStatus = "pending")
        /\ i.isTopFulfulled = (i.topStatus = "fulfilled")
        /\ i.isTopRejected = (i.topStatus = "rejected")
        /\ i.isBotPending = (i.botStatus = "pending")
        /\ i.isBotFulfulled = (i.botStatus = "fulfilled")
        /\ i.isBotRejected = (i.botStatus = "rejected")

-----------------------------------------------------------------------------
(* C33 *)

\* invocations k and j are primary fetches of one instance, j started after k
Overlap(k, j) ==
    /\ k < j /\ promises[k].h = promises[j].h
    /\ IsPrimary(promises[k].fromWhere, promises[k].fetchWhat)
    /\ IsPrimary(promises[j].fromWhere, promises[j].fetchWhat)
    /\ insts[promises[k].h].options.fetchIfPending

\* C33: with fetchIfPending = true, if two primary fetches overlap on one
\* instance, the data, status and error reflect the fetch that was started
\* last, in whichever order the promises settle: once the later fetch has
\* settled, the then or catch of the earlier one changes none of them.
C33_LastStartedWins ==
    [][ \A k, j \in 1 .. Len(promises) :
          ( /\ Overlap(k, j)
            /\ promises[j].phase = "finally"
            /\ Stepped(k) /\ promises[k].phase = "pending" )
          => LET i == insts[promises[k].h]
                 n == insts'[promises[k].h]
             IN  n.data = i.data /\ n.status = i.status /\ n.error = i.error ]_vars

-----------------------------------------------------------------------------
(* C34 *)

\* a fetch started by a scroll trigger of instance h is outstanding
ScrollFetchOutstanding(h) ==
    \E k \in 1 .. Len(promises) :
        promises[k].h = h /\ ~IsPrimary(promises[k].fromWhere, promises[k].fetchWhat)

\* C34: the options established by a mobxSaiFetch call on a cached id are
\* still the options of the instance after the fetch started by that call
\* has settled: the finally step of a primary fetch, with no scroll fetch of
\* the instance outstanding, and the options and the snapshot of an earlier
\* scroll trigger still those of its start, leaves the options as they are.
C34_FinallyKeepsOptions ==
    [][ \A k \in 1 .. Len(promises) :
          ( /\ Settled(k)
            /\ IsPrimary(promises[k].fromWhere, promises[k].fetchWhat)
            /\ ~ScrollFetchOutstanding(promises[k].h)
            /\ promises[k].leftover # <<>>
            /\ insts[promises[k].h].oldOptions = << promises[k].leftover[1].snapshot >>
            /\ insts[promises[k].h].options = promises[k].leftover[1].established )
          => insts'[promises[k].h].options = promises[k].leftover[1].established ]_vars

-----------------------------------------------------------------------------
(* C35 *)

\* the step is a mobxSaiFetch call on the cached id of instance h that
\* admission control declines
DeclinedReentry(h) ==
    /\ last'.op = "mobxSaiFetch" /\ last'.h = h
    /\ CacheHit(OptionOr(last'.options, "id", ""))
    /\ fetchCache[OptionOr(last'.options, "id", "")] = h
    /\ \/ ~OptionOr(last'.options, "fetchIfPending", FALSE) /\ insts[h].isPending
       \/ ~OptionOr(last'.options, "fetchIfHaveData", TRUE) /\ Truthy(insts[h].data)

\* C35: a mobxSaiFetch call on a cached id that admission control declines
\* (the instance is pending and fetchIfPending is false, or data is present
\* and fetchIfHaveData is false) leaves the options of the cached instance
\* unchanged.
C35_DeclinedKeepsOptions ==
    [][ \A h \in 1 .. Len(insts) :
          DeclinedReentry(h) => insts'[h].options = insts[h].options ]_vars

-----------------------------------------------------------------------------
(* C36 *)

\* C36: every callback registered with debouncedAction that is not later
\* replaced by a newer registration for its composite key and not cancelled
\* is eventually executed, and exactly once; this includes a callback
\* registered for a composite key from inside the callback that a timeout or
\* flushDebouncedActions is running for that key.
C36_EventuallyRunsOnce ==
    \A n \in 1 .. MaxActions :
        /\ (n <= Len(callbacks)) ~>
              (n <= Len(callbacks)
                 /\ (callbacks[n].ended # "no" \/ callbacks[n].runs = 1))
        /\ [](n <= Len(callbacks) => callbacks[n].runs <= 1)

-----------------------------------------------------------------------------
(* C37 *)

\* C37: in scroll mode with startFrom = 'top', cacheSystem.limit = L and
\* howMuchGettedToTop = h, when the initial fetch and every page return at
\* most L items, the live list holds at most (h + 1) * L items after any
\* sequence of scroll-triggered top and bottom fetches (none of them still
\* marked pending).
C37_WindowBounded ==
    \A h \in 1 .. Len(insts) :
        ( /\ insts[h].tracking
          /\ insts[h].options.dataScope.startFrom = "top"
          /\ ~insts[h].isTopPending /\ ~insts[h].isBotPending )
        => ListLen(Prop(insts[h].data, "items"))
             <= (insts[h].options.dataScope.howMuchGettedToTop + 1)
                  * insts[h].options.cacheSystem.limit

-----------------------------------------------------------------------------
(* C38 *)

\* C38: with dataScope.startFrom and howMuchGettedToTop (>= 1) fixed,
\* gettedToTop never crosses the scroll origin: it is <= 0 in every reachable
\* state when startFrom = 'top' and >= 0 when startFrom = 'bot', for any
\* sequence of scroll events and completions.
C38_NeverCrossesOrigin ==
    \A h \in 1 .. Len(insts) :
        /\ insts[h].options.dataScope.startFrom = "top" => insts[h].gettedToTop <= 0
        /\ insts[h].options.dataScope.startFrom = "bot" => insts[h].gettedToTop >= 0

\* a list paged from its bottom has moved two pages up and come one page
\* down again, which leaves it where the next bottom trigger is suppressed
C38_Witness ==
    \E b \in 1 .. Len(insts) :
        /\ insts[b].options.dataScope.startFrom = "bot"
        /\ insts[b].gettedToTop = 1 /\ insts[b].isBotPending
        /\ last.op = "handleScrollUpdate" /\ last.fetch = "invoked"

-----------------------------------------------------------------------------
(* C39 *)

\* C39: extend returns a schema that includes the added validators while the
\* schema it was called on, and the validator map handed to schema(), keeps
\* exactly its previous validators.  (validators is the map of the schema
\* extend is called on, the one schema() was given; extend returns this.)
C39_ExtendKeepsBase ==
    [][ last'.op = "extend" => validators' = validators ]_vars

-----------------------------------------------------------------------------
(* C40 *)

\* the step calls onSuccess of handler n
CallsOnSuccess(n) ==
    /\ Len(handlers'[n].calls) = Len(handlers[n].calls) + 1
    /\ handlers'[n].calls[Len(handlers'[n].calls)] = "onSuccess"

\* C40: onSuccess of a handler registered with mobxSaiHandler is only ever
\* called with data written to the instance after the handler was registered,
\* never with data already present at registration.  A handler whose
\* callbacks return is disposed by the first change that finds data or error
\* set, so it is called with data written after its registration exactly when
\* the call is made by the step that writes the data: the .then of a fetch
\* of its instance.
C40_OnSuccessFreshData ==
    [][ \A n \in DOMAIN handlers :
          CallsOnSuccess(n) =>
            /\ last'.op = "then" /\ last'.h = handlers[n].h
            /\ insts'[handlers[n].h].data = last'.ret.data ]_vars

====
